---- MODULE Spec2Model ----
(***************************************************************************)
(* Ride lifecycle engine of the ride-hailing platform: ride / trip /      *)
(* driver rows of the persistence store, the Redis geo index of available  *)
(* drivers, the Redis matching lock, the request handlers of the driver,   *)
(* ride and trip services, the detached background matcher started by      *)
(* createRide, and payment settlement.                                     *)
(*                                                                         *)
(* Persistence transactions run at the store's default isolation (READ     *)
(* COMMITTED): a handler's reads see the rows committed at the moment of   *)
(* the read, its writes become visible together at commit.  Each handler   *)
(* is therefore a sequence of steps: one step per read that a decision     *)
(* depends on, and one step that applies its writes and commits.           *)
(***************************************************************************)
EXTENDS Integers, Sequences, FiniteSets, TLC

\* ---------------------------------------------------------------- bounds
Rides == {"r1", "r2"}
Drivers == {"d1", "d2"}
TaskOrder == <<"t1", "t2">>
Tasks == {TaskOrder[i] : i \in DOMAIN TaskOrder}
OTPs == {1, 2}
PayTasks == {"p1", "p2"}
Keys == {"k1", "k2"}
MatchRequests == 2
PayRequests == 4
ViewRequests == 1
ExhaustRequests == 2
Fare == 2
TripRequests == 4
FleetRequests == 3
CreateRequests == 3
PickupRequests == 5
EndRequests == 3
OtpRequests == 6
RaceRequests == 5
AbortRequests == 4
\* LOCATION_BATCH_SIZE, and LOCATION_BATCH_INTERVAL_MS in ticks of the clock
BatchSize == 2
BatchInterval == 2
LocRequests == 4
Sockets == {"s1", "s2"}
Channels == {"ride:r1", "location:d1"}
BusRequests == 5

\* ------------------------------------------------------- program constants
MaxAttempts == 3
\* payments.maxAttempts (column default)
MaxPayAttempts == 3

NoDriver == "none"
NoToken == "free"
NoRide == "none"
NoFare == [pc |-> "none"]
\* batchTimeout = null
NoTimer == -1
\* the handle of a timer whose callback has run and that nobody has cleared
Fired == BatchInterval + 1

Terminal == {"COMPLETED", "CANCELLED", "FAILED"}
ActiveStatus == {"MATCHED", "DRIVER_ARRIVING", "ARRIVED", "IN_PROGRESS"}
DriverStatus == {"OFFLINE", "AVAILABLE", "ON_RIDE", "BREAK"}

VARIABLES
  rideStatus,    \* rides.status; "NONE" while the row does not exist
  rideDriver,    \* rides.driverId
  driverStatus,  \* drivers.status
  driverPos,     \* drivers whose currentLat / currentLng are set
  tripStatus,    \* trips.status of the trip of a ride; "NONE": no row
  tripDriver,    \* trips.driverId
  tripOtp,       \* trips.startOtp
  geo,           \* members of the Redis geo set drivers:available
  lock,          \* value bound to lock:ride:<rideId>:matching
  task,          \* request tasks: position and locals of the handler they run
  matcher,       \* background matcher of each ride
  matches,       \* history: committed SEARCHING -> MATCHED writes per ride
  acceptErrs,    \* history: error kinds returned by the failed calls among the
                 \* match calls made for a SEARCHING ride and an AVAILABLE driver
  cancelled,     \* history: rides on which a cancelRide has committed
  requests,      \* number of requests the clients have yet to get admitted
  pending,       \* ride requests that riders have yet to submit
  workers,       \* request tasks the server runs
  payments,      \* committed rows of the payments table
  idemKeys,      \* idempotency keys set in Redis by checkIdempotency
  idemResp,      \* Redis <key>:response, the cached JSON response of a key
  payTask,       \* payment request tasks
  charges,       \* number of PSP charge calls made per trip
  responses,     \* history: per idempotency key, the <<trip, body>> returned
  payRequests,   \* number of payment requests the clients have yet to make
  refunds,       \* refunds table: per trip's payment, the amounts of its refund rows
  outcomes,      \* history: what retryPayment / processRefund calls read and returned
  rideCache,     \* Redis ride:<id>: the status in the cached ride object
  rideEvents,    \* number of ride_events rows of a ride
  published,     \* number of messages published on ride:<id>
  notices,       \* number of notifications rows of a ride
  reply,         \* the latest reply of getRideById, or of a startTrip refused at
                 \* its OTP test
  applied,       \* history: the statuses written to a ride's row, in commit order
  topic,         \* the status messages published on ride:<id>, in publish order
  locationUpdateQueue, \* the module's array of queued pings
  batchTimeout,  \* the module's timer handle: NoTimer, or the time since it was set
  pipelines,     \* pipelines sent on the redisClient connection and not yet replied to
  written,       \* history: per driver, the pings the drains wrote to the geo set
  ingested,      \* history: per driver, the number of pings passed to queueLocationUpdate
  pinger,        \* per driver, the position of its updateDriverLocation request
  locPublished,  \* number of messages published on location:<driverId>
  lost,          \* history: batches dropped at a failed write, ingest calls that threw
  pings,         \* number of location requests the drivers have yet to make
  handlers,      \* 'message' listeners of redisSubscriber: <<socket, channel>>
  subscribed,    \* channels the redisSubscriber connection is subscribed to
  delivered,     \* history: per socket and channel, the number of messages emitted
  sent,          \* history: number of messages published per channel
  busRequests,   \* number of bus operations the clients have yet to make
  rideKey,       \* rides.idempotencyKey
  creates,       \* history: the results returned by createRide calls that carried a key
  receipts,      \* number of receipts rows of the trip of a ride
  earnings,      \* number of earnings rows that refer to the trip of a ride
  totalTrips,    \* drivers.totalTrips, counted from start-up
  totalRides,    \* riders.totalRides of the rider, counted from start-up
  fare,          \* the fare request in hand: inputs and, once computed, outputs
  aborted        \* history: handlers whose transaction failed to commit

rideVars == <<rideStatus, rideDriver, driverStatus, driverPos, tripStatus, tripDriver, tripOtp,
              geo, lock, task, matcher, matches, acceptErrs, cancelled, requests, pending,
              workers>>
payVars == <<payments, idemKeys, idemResp, payTask, charges, responses, payRequests,
             refunds, outcomes>>
obsVars == <<rideCache, rideEvents, published, notices, reply, applied, topic>>
locVars == <<locationUpdateQueue, batchTimeout, pipelines, written, ingested, pinger,
             locPublished, lost, pings>>
busVars == <<handlers, subscribed, delivered, sent, busRequests>>
moreVars == <<rideKey, creates, receipts, earnings, totalTrips, totalRides, fare, aborted>>
liveVars == <<locVars, busVars, moreVars>>
vars == <<rideVars, payVars, obsVars, liveVars>>
rideVarsButMatcher == <<rideStatus, rideDriver, driverStatus, driverPos, tripStatus, tripDriver,
                        tripOtp, geo, lock, task, matches, acceptErrs, cancelled, requests,
                        pending, workers>>

\* ------------------------------------------------------------ geo index
\* Straight-line distance of each driver from the pickup point, in tenths
\* of a km, and rating in tenths (seed data: D1 at the pickup rated 4.9,
\* D2 further away rated 4.6).
Distance == [d \in Drivers |-> IF d = "d1" THEN 0 ELSE 7]
Rating == [d \in Drivers |-> IF d = "d1" THEN 49 ELSE 46]

RECURSIVE SeqOfSet(_)
SeqOfSet(S) ==
  IF S = {} THEN <<>>
  ELSE LET d == CHOOSE x \in S : \A y \in S : Distance[x] <= Distance[y]
       IN <<d>> \o SeqOfSet(S \ {d})

\* GEORADIUS ... WITHDIST ASC: the members of the set by ascending distance.
findNearbyDrivers == SeqOfSet(geo)

Abs(x) == IF x < 0 THEN -x ELSE x

\* comparator of the matcher's sort: > 0 when a is to come after b
CompareDrivers(a, b) ==
  IF Abs(Distance[a] - Distance[b]) < 5
  THEN Rating[b] - Rating[a]
  ELSE Distance[a] - Distance[b]

RECURSIVE InsertSorted(_, _)
InsertSorted(s, d) ==
  IF s = <<>> THEN <<d>>
  ELSE IF CompareDrivers(s[Len(s)], d) > 0
       THEN InsertSorted(SubSeq(s, 1, Len(s) - 1), d) \o <<s[Len(s)]>>
       ELSE s \o <<d>>

RECURSIVE SortDrivers(_)
SortDrivers(s) ==
  IF s = <<>> THEN <<>>
  ELSE InsertSorted(SortDrivers(SubSeq(s, 1, Len(s) - 1)), s[Len(s)])

\* ------------------------------------------------------------ lock service
\* acquireLock: SET key value EX ttl NX.  The token of a holder is its task
\* (or matcher) name: one holder has at most one withLock in progress.
LockFree(r) == lock[r] = NoToken

\* a release that deletes the binding whatever token it holds
ReleasedAnyToken(r, p) == [lock EXCEPT ![r] = NoToken]

\* releaseLock: delete the binding only when it still holds the caller's token
Released(r, p) == [lock EXCEPT ![r] = IF lock[r] = p THEN NoToken ELSE lock[r]]

\* ---------------------------------------------------------------- payments
NoResp == {}
IdlePay == [pc |-> "idle", trip |-> NoRide, key |-> "none", ok |-> FALSE, txn |-> 0,
            amount |-> 0]

\* PaymentResponse built from a payments row; pspTransactionId is undefined
\* (0) when the row has none, createdAt is a Date
ResponseOf(row) ==
  [tripId |-> row.trip, status |-> row.status, pspTransactionId |-> row.txn,
   createdAt |-> <<"Date", row.created>>]

\* JSON.stringify: undefined members are left out, a Date becomes a string
ToJson(resp) ==
  {<<"tripId", resp.tripId>>, <<"status", resp.status>>,
   <<"createdAt", <<"String", resp.createdAt[2]>>>>}
  \cup (IF resp.pspTransactionId = 0 THEN {}
        ELSE {<<"pspTransactionId", resp.pspTransactionId>>})

JsonMember(json, name, default) ==
  IF \E m \in json : m[1] = name
  THEN (CHOOSE m \in json : m[1] = name)[2]
  ELSE default

\* JSON.parse: members that were left out are undefined, strings stay strings
FromJson(json) ==
  [tripId |-> JsonMember(json, "tripId", NoRide),
   status |-> JsonMember(json, "status", "none"),
   pspTransactionId |-> JsonMember(json, "pspTransactionId", 0),
   createdAt |-> JsonMember(json, "createdAt", <<"String", 0>>)]

\* body sent for a service result: the data of a success, or the error of
\* the controller for any failure
SuccessBody(resp) == [ok |-> TRUE, data |-> ToJson(resp)]
FailureBody == [ok |-> FALSE, data |-> {}]

\* ----------------------------------------------------------- observations
NoCache == "none"
NoReply == [op |-> "none", ride |-> NoRide, arg |-> 0, code |-> "none", n |-> 0]

\* What the handlers do besides the status write of a transition of ride r:
\* n notification rows, one ride_events row, invalidateRideCache and
\* publishRideUpdate
Announce(r, n) ==
  /\ notices' = [notices EXCEPT ![r] = @ + n]
  /\ rideEvents' = [rideEvents EXCEPT ![r] = @ + 1]
  /\ rideCache' = [rideCache EXCEPT ![r] = NoCache]
  /\ published' = [published EXCEPT ![r] = @ + 1]
  /\ applied' = [applied EXCEPT ![r] = Append(@, rideStatus'[r])]
  /\ topic' = [topic EXCEPT ![r] = Append(@, rideStatus'[r])]

\* ------------------------------------------------------------------ tasks
IdleTask == [pc |-> "idle", ride |-> NoRide, driver |-> NoDriver, arg |-> 0, key |-> "none"]
IdleMatcher == [pc |-> "off", attempts |-> 0, cands |-> <<>>, idx |-> 0, arg |-> 0]

\* a match call is contested when it is made for a ride that is SEARCHING and
\* a driver who is AVAILABLE (kept as 1 in the caller's arg)
Contested(r, d) ==
  IF rideStatus[r] = "SEARCHING" /\ driverStatus[d] = "AVAILABLE" THEN 1 ELSE 0

Failed(kind, contested) == IF contested = 1 THEN acceptErrs \cup {kind} ELSE acceptErrs

DoneMatcher(m) == [IdleMatcher EXCEPT !.pc = "done", !.attempts = m.attempts]

Idle(t) == task[t].pc = "idle"
\* Request tasks are anonymous: a new request runs on the first idle task.
CanStart(t) ==
  /\ t \in workers
  /\ Idle(t)
  /\ requests > 0
  /\ \E i \in DOMAIN TaskOrder :
        TaskOrder[i] = t /\ \A j \in 1..(i - 1) : ~Idle(TaskOrder[j])

\* State after start-up for a population: the ride requests to come, the
\* driver rows (seeded AVAILABLE), the drivers with a known position (these
\* have announced themselves and are in the geo index), the request tasks
\* and the number of requests the clients make.
\* location pipeline and update bus at process start, with the numbers of
\* location requests and bus operations to come
InitRest(np, nb) ==
  /\ locationUpdateQueue = <<>>
  /\ batchTimeout = NoTimer
  /\ pipelines = <<>>
  /\ written = [d \in Drivers |-> <<>>]
  /\ ingested = [d \in Drivers |-> 0]
  /\ pinger = [d \in Drivers |-> "idle"]
  /\ locPublished = [d \in Drivers |-> 0]
  /\ lost = [batches |-> 0, thrown |-> 0]
  /\ pings = np
  /\ handlers = {}
  /\ subscribed = {}
  /\ delivered = [s \in Sockets |-> [c \in Channels |-> 0]]
  /\ sent = [c \in Channels |-> 0]
  /\ busRequests = nb
  /\ rideKey = [r \in Rides |-> "none"]
  /\ creates = {}
  /\ receipts = [r \in Rides |-> IF tripStatus[r] = "COMPLETED" THEN 1 ELSE 0]
  /\ earnings = receipts
  /\ totalTrips = [d \in Drivers |->
                     Cardinality({r \in Rides : tripStatus[r] = "COMPLETED" /\ tripDriver[r] = d})]
  /\ totalRides = Cardinality({r \in Rides : tripStatus[r] = "COMPLETED"})
  /\ aborted = {}

InitLive(np, nb) == InitRest(np, nb) /\ fare = NoFare

\* the statuses a ride accepted by a driver has gone through on its way to st
Route == <<"MATCHED", "DRIVER_ARRIVING", "ARRIVED", "IN_PROGRESS", "COMPLETED">>
Journey(st) ==
  IF \E i \in DOMAIN Route : Route[i] = st
  THEN SubSeq(Route, 1, CHOOSE i \in DOMAIN Route : Route[i] = st)
  ELSE <<>>

InitStore(rs, ds, ws, n) ==
  /\ pending = rs
  /\ workers = ws
  /\ driverStatus = [d \in Drivers |-> IF d \in ds THEN "AVAILABLE" ELSE "NONE"]
  /\ driverPos \in SUBSET ds
  /\ geo = driverPos
  /\ rideStatus = [r \in Rides |-> "NONE"]
  /\ rideDriver = [r \in Rides |-> NoDriver]
  /\ tripStatus = [r \in Rides |-> "NONE"]
  /\ tripDriver = [r \in Rides |-> NoDriver]
  /\ tripOtp = [r \in Rides |-> 0]
  /\ lock = [r \in Rides |-> NoToken]
  /\ task = [t \in Tasks |-> IdleTask]
  /\ matcher = [r \in Rides |-> IdleMatcher]
  /\ matches = [r \in Rides |-> <<>>]
  /\ acceptErrs = {}
  /\ cancelled = {}
  /\ requests = n
  /\ payments = {}
  /\ idemKeys = {}
  /\ idemResp = [k \in Keys |-> NoResp]
  /\ payTask = [p \in PayTasks |-> IdlePay]
  /\ charges = [r \in Rides |-> 0]
  /\ responses = [k \in Keys |-> {}]
  /\ payRequests = 0
  /\ refunds = [r \in Rides |-> <<>>]
  /\ outcomes = {}
  /\ rideCache = [r \in Rides |-> NoCache]
  /\ rideEvents = [r \in Rides |-> 0]
  /\ published = [r \in Rides |-> 0]
  /\ notices = [r \in Rides |-> 0]
  /\ reply = NoReply
  /\ applied = [r \in Rides |-> <<>>]
  /\ topic = [r \in Rides |-> <<>>]

InitPop(rs, ds, ws, n) == InitStore(rs, ds, ws, n) /\ InitLive(0, 0)

\* ------------------------------------------------------------- createRide
\* Inserts the ride row in SEARCHING and starts the detached matcher.
createRide(r) ==
  /\ r \in pending
  /\ pending' = pending \ {r}
  /\ rideStatus[r] = "NONE"
  /\ rideStatus' = [rideStatus EXCEPT ![r] = "SEARCHING"]
  /\ matcher' = [matcher EXCEPT ![r] = [IdleMatcher EXCEPT !.pc = "query"]]
  /\ UNCHANGED <<rideDriver, driverStatus, driverPos, tripStatus, tripDriver, tripOtp,
                 geo, lock, task, matches, acceptErrs, requests, cancelled, workers>>
  /\ UNCHANGED payVars
  /\ UNCHANGED liveVars
  /\ rideEvents' = [rideEvents EXCEPT ![r] = @ + 1]
  /\ rideCache' = [rideCache EXCEPT ![r] = "SEARCHING"]
  /\ UNCHANGED <<published, notices, reply, applied, topic>>

\* createRide called with an idempotency key, up to its findUnique on the
\* key: a row with the key is returned (from the ride cache or the store) as
\* a success; otherwise the handler goes on to the rider, pricing and surge
\* look-ups
RowOfKey(k) == {r \in Rides : rideKey[r] = k}

createCheck(t, k) ==
  /\ CanStart(t)
  /\ requests' = requests - 1
  /\ IF RowOfKey(k) # {}
     THEN /\ creates' = creates \cup {[key |-> k, ok |-> TRUE, ride |-> r] : r \in RowOfKey(k)}
          /\ UNCHANGED task
     ELSE /\ task' = [task EXCEPT ![t] = [IdleTask EXCEPT !.pc = "create_insert", !.key = k]]
          /\ UNCHANGED creates
  /\ UNCHANGED <<rideStatus, rideDriver, driverStatus, driverPos, tripStatus, tripDriver,
                 tripOtp, geo, lock, matcher, matches, acceptErrs, pending, cancelled, workers>>
  /\ UNCHANGED payVars
  /\ UNCHANGED obsVars
  /\ UNCHANGED <<locVars, busVars>>
  /\ UNCHANGED <<rideKey, receipts, earnings, totalTrips, totalRides, fare, aborted>>

\* the row a create inserts: the next unused one
NewRide == IF "r1" \in pending THEN "r1" ELSE "r2"

\* prisma.ride.create with the key.  The unique index rides_idempotencyKey_key
\* rejects a second row with the key: the error is caught by createRide and
\* returned as a failure.  Otherwise the row is inserted, the ride_created
\* event logged, the ride cached and findAndMatchDriver started
createInsert(t) ==
  /\ task[t].pc = "create_insert"
  /\ task' = [task EXCEPT ![t] = IdleTask]
  /\ IF RowOfKey(task[t].key) # {}
     THEN /\ creates' = creates \cup {[key |-> task[t].key, ok |-> FALSE, ride |-> NoRide]}
          /\ UNCHANGED <<rideStatus, matcher, pending, rideKey, rideEvents, rideCache>>
     ELSE /\ creates' = creates \cup {[key |-> task[t].key, ok |-> TRUE, ride |-> NewRide]}
          /\ pending' = pending \ {NewRide}
          /\ rideStatus' = [rideStatus EXCEPT ![NewRide] = "SEARCHING"]
          /\ rideKey' = [rideKey EXCEPT ![NewRide] = task[t].key]
          /\ matcher' = [matcher EXCEPT ![NewRide] = [IdleMatcher EXCEPT !.pc = "query"]]
          /\ rideEvents' = [rideEvents EXCEPT ![NewRide] = @ + 1]
          /\ rideCache' = [rideCache EXCEPT ![NewRide] = "SEARCHING"]
  /\ UNCHANGED <<rideDriver, driverStatus, driverPos, tripStatus, tripDriver, tripOtp,
                 geo, lock, matches, acceptErrs, requests, cancelled, workers>>
  /\ UNCHANGED payVars
  /\ UNCHANGED <<published, notices, reply, applied, topic>>
  /\ UNCHANGED <<locVars, busVars>>
  /\ UNCHANGED <<receipts, earnings, totalTrips, totalRides, fare, aborted>>

\* The TTL of the matching lock elapses: Redis drops the binding, whatever
\* its holder is doing.
LockExpire(r) ==
  /\ lock[r] # NoToken
  /\ lock' = [lock EXCEPT ![r] = NoToken]
  /\ UNCHANGED <<rideStatus, rideDriver, driverStatus, driverPos, tripStatus, tripDriver,
                 tripOtp, geo, task, matcher, matches, acceptErrs, requests, pending, cancelled, workers>>
  /\ UNCHANGED payVars
  /\ UNCHANGED liveVars
  /\ UNCHANGED obsVars

\* ------------------------------------------------------------- acceptRide
\* withLock: acquire lock:ride:<rideId>:matching or throw 'Could not acquire lock'
acceptAcquire(t, r, d) ==
  /\ CanStart(t)
  /\ IF LockFree(r)
     THEN /\ lock' = [lock EXCEPT ![r] = t]
          /\ task' = [task EXCEPT ![t] = [IdleTask EXCEPT !.pc = "acc_ride", !.ride = r, !.driver = d,
                                                            !.arg = Contested(r, d)]]
          /\ requests' = requests - 1
          /\ UNCHANGED acceptErrs
     ELSE /\ acceptErrs' = Failed("LockError", Contested(r, d))
          /\ UNCHANGED <<lock, task, requests>>
  /\ UNCHANGED <<rideStatus, rideDriver, driverStatus, driverPos, tripStatus, tripDriver,
                 tripOtp, geo, matcher, matches, pending, cancelled, workers>>
  /\ UNCHANGED payVars
  /\ UNCHANGED liveVars
  /\ UNCHANGED obsVars

\* tx.ride.findFirst({id, status: SEARCHING}); none: BadRequestError, lock released
acceptReadRide(t) ==
  /\ task[t].pc = "acc_ride"
  /\ IF rideStatus[task[t].ride] = "SEARCHING"
     THEN /\ task' = [task EXCEPT ![t].pc = "acc_driver"]
          /\ UNCHANGED <<lock, acceptErrs>>
     ELSE /\ task' = [task EXCEPT ![t] = IdleTask]
          /\ lock' = Released(task[t].ride, t)
          /\ acceptErrs' = Failed("BadRequest", task[t].arg)
  /\ UNCHANGED <<rideStatus, rideDriver, driverStatus, driverPos, tripStatus, tripDriver,
                 tripOtp, geo, matcher, matches, requests, pending, cancelled, workers>>
  /\ UNCHANGED payVars
  /\ UNCHANGED liveVars
  /\ UNCHANGED obsVars

\* tx.driver.findFirst({id, status: AVAILABLE}); none: BadRequestError, lock released
acceptReadDriver(t) ==
  /\ task[t].pc = "acc_driver"
  /\ IF driverStatus[task[t].driver] = "AVAILABLE"
     THEN /\ task' = [task EXCEPT ![t].pc = "acc_write"]
          /\ UNCHANGED <<lock, acceptErrs>>
     ELSE /\ task' = [task EXCEPT ![t] = IdleTask]
          /\ lock' = Released(task[t].ride, t)
          /\ acceptErrs' = Failed("BadRequest", task[t].arg)
  /\ UNCHANGED <<rideStatus, rideDriver, driverStatus, driverPos, tripStatus, tripDriver,
                 tripOtp, geo, matcher, matches, requests, pending, cancelled, workers>>
  /\ UNCHANGED payVars
  /\ UNCHANGED liveVars
  /\ UNCHANGED obsVars

\* ride := (driverId, MATCHED), driver := ON_RIDE, removeAvailableDriver,
\* commit, then the finally-clause of withLock releases the lock
acceptWrite(t) ==
  /\ task[t].pc = "acc_write"
  /\ LET r == task[t].ride
         d == task[t].driver
     IN /\ rideStatus' = [rideStatus EXCEPT ![r] = "MATCHED"]
        /\ rideDriver' = [rideDriver EXCEPT ![r] = d]
        /\ driverStatus' = [driverStatus EXCEPT ![d] = "ON_RIDE"]
        /\ geo' = geo \ {d}
        /\ matches' = [matches EXCEPT ![r] = Append(@, d)]
        /\ lock' = Released(r, t)
  /\ task' = [task EXCEPT ![t] = IdleTask]
  /\ UNCHANGED <<driverPos, tripStatus, tripDriver, tripOtp, matcher, acceptErrs, requests, pending, cancelled, workers>>
  /\ UNCHANGED payVars
  /\ UNCHANGED liveVars
  /\ Announce(task[t].ride, 2)
  /\ UNCHANGED reply

\* ------------------------------------------------------ findAndMatchDriver
\* The candidate failed: continue the for-loop, or leave it unmatched, sleep
\* and re-enter the while-loop (or fall out of it after the last attempt).
NextCandidate(m) ==
  IF m.idx < Len(m.cands)
  THEN [m EXCEPT !.pc = "check", !.idx = m.idx + 1, !.arg = 0]
  ELSE [m EXCEPT !.pc = IF m.attempts < MaxAttempts THEN "query" ELSE "fail",
                 !.cands = <<>>, !.idx = 0, !.arg = 0]

\* head of the while-loop: attempts++, query the geo index, sort the result
matcherQuery(r) ==
  /\ matcher[r].pc = "query"
  /\ LET m == matcher[r]
         a == m.attempts + 1
         found == findNearbyDrivers
     IN matcher' = [matcher EXCEPT ![r] =
          IF found = <<>>
          THEN [m EXCEPT !.attempts = a,
                         !.pc = IF a < MaxAttempts THEN "query" ELSE "fail"]
          ELSE [m EXCEPT !.attempts = a, !.pc = "check",
                         !.cands = SortDrivers(found), !.idx = 1]]
  /\ UNCHANGED <<rideStatus, rideDriver, driverStatus, driverPos, tripStatus, tripDriver,
                 tripOtp, geo, lock, task, matches, acceptErrs, requests, pending, cancelled, workers>>
  /\ UNCHANGED payVars
  /\ UNCHANGED liveVars
  /\ UNCHANGED obsVars

\* per candidate: re-read the ride, return when it is no longer SEARCHING
matcherCheck(r) ==
  /\ matcher[r].pc = "check"
  /\ matcher' = [matcher EXCEPT ![r] =
        IF rideStatus[r] = "SEARCHING"
        THEN [@ EXCEPT !.pc = "m_lock"]
        ELSE DoneMatcher(matcher[r])]
  /\ UNCHANGED <<rideStatus, rideDriver, driverStatus, driverPos, tripStatus, tripDriver,
                 tripOtp, geo, lock, task, matches, acceptErrs, requests, pending, cancelled, workers>>
  /\ UNCHANGED payVars
  /\ UNCHANGED liveVars
  /\ UNCHANGED obsVars

\* matchRideWithDriver: withLock; a lock that cannot be acquired throws a
\* plain Error, which the catch turns into a failed result
matchAcquire(r) ==
  /\ matcher[r].pc = "m_lock"
  /\ IF LockFree(r)
     THEN /\ lock' = [lock EXCEPT ![r] = r]
          /\ matcher' = [matcher EXCEPT ![r].pc = "m_ride",
                                        ![r].arg = Contested(r, matcher[r].cands[matcher[r].idx])]
          /\ UNCHANGED acceptErrs
     ELSE /\ acceptErrs' = Failed("LockError", Contested(r, matcher[r].cands[matcher[r].idx]))
          /\ matcher' = [matcher EXCEPT ![r] = NextCandidate(@)]
          /\ UNCHANGED lock
  /\ UNCHANGED <<rideStatus, rideDriver, driverStatus, driverPos, tripStatus, tripDriver,
                 tripOtp, geo, task, matches, requests, pending, cancelled, workers>>
  /\ UNCHANGED payVars
  /\ UNCHANGED liveVars
  /\ UNCHANGED obsVars

\* tx.ride.findFirst({id, status: SEARCHING}); none: ConflictError
matchReadRide(r) ==
  /\ matcher[r].pc = "m_ride"
  /\ IF rideStatus[r] = "SEARCHING"
     THEN /\ matcher' = [matcher EXCEPT ![r].pc = "m_driver"]
          /\ UNCHANGED <<lock, acceptErrs>>
     ELSE /\ matcher' = [matcher EXCEPT ![r] = NextCandidate(@)]
          /\ lock' = Released(r, r)
          /\ acceptErrs' = Failed("Conflict", matcher[r].arg)
  /\ UNCHANGED <<rideStatus, rideDriver, driverStatus, driverPos, tripStatus, tripDriver,
                 tripOtp, geo, task, matches, requests, pending, cancelled, workers>>
  /\ UNCHANGED payVars
  /\ UNCHANGED liveVars
  /\ UNCHANGED obsVars

\* tx.driver.findFirst({id, status: AVAILABLE}); none: ConflictError
matchReadDriver(r) ==
  /\ matcher[r].pc = "m_driver"
  /\ IF driverStatus[matcher[r].cands[matcher[r].idx]] = "AVAILABLE"
     THEN /\ matcher' = [matcher EXCEPT ![r].pc = "m_write"]
          /\ UNCHANGED <<lock, acceptErrs>>
     ELSE /\ matcher' = [matcher EXCEPT ![r] = NextCandidate(@)]
          /\ lock' = Released(r, r)
          /\ acceptErrs' = Failed("Conflict", matcher[r].arg)
  /\ UNCHANGED <<rideStatus, rideDriver, driverStatus, driverPos, tripStatus, tripDriver,
                 tripOtp, geo, task, matches, requests, pending, cancelled, workers>>
  /\ UNCHANGED payVars
  /\ UNCHANGED liveVars
  /\ UNCHANGED obsVars

\* ride := (driverId, MATCHED), driver := ON_RIDE, commit, release; the
\* driver stays in the geo index.  matched = true ends the loop.
matchWrite(r) ==
  /\ matcher[r].pc = "m_write"
  /\ LET d == matcher[r].cands[matcher[r].idx]
     IN /\ rideStatus' = [rideStatus EXCEPT ![r] = "MATCHED"]
        /\ rideDriver' = [rideDriver EXCEPT ![r] = d]
        /\ driverStatus' = [driverStatus EXCEPT ![d] = "ON_RIDE"]
        /\ matches' = [matches EXCEPT ![r] = Append(@, d)]
  /\ lock' = Released(r, r)
  /\ matcher' = [matcher EXCEPT ![r] = DoneMatcher(matcher[r])]
  /\ UNCHANGED <<driverPos, tripStatus, tripDriver, tripOtp, geo, task, acceptErrs, requests, pending, cancelled, workers>>
  /\ UNCHANGED payVars
  /\ UNCHANGED liveVars
  /\ Announce(r, 2)
  /\ UNCHANGED reply

\* a matcher that returns after its last attempt without writing
matcherGiveUp(r) ==
  /\ matcher[r].pc = "fail"
  /\ matcher' = [matcher EXCEPT ![r] = DoneMatcher(matcher[r])]
  /\ UNCHANGED <<rideStatus, rideDriver, driverStatus, driverPos, tripStatus, tripDriver, tripOtp,
                 geo, lock, task, matches, acceptErrs, requests, pending, cancelled, workers>>
  /\ UNCHANGED payVars
  /\ UNCHANGED liveVars
  /\ UNCHANGED obsVars

\* after the loop, not matched: prisma.ride.update({id}, {status: FAILED}),
\* then the notification row; both outside any transaction
matcherFail(r) ==
  /\ matcher[r].pc = "fail"
  /\ rideStatus' = [rideStatus EXCEPT ![r] = "FAILED"]
  /\ matcher' = [matcher EXCEPT ![r] = [DoneMatcher(matcher[r]) EXCEPT !.pc = "publish"]]
  /\ UNCHANGED <<rideDriver, driverStatus, driverPos, tripStatus, tripDriver, tripOtp,
                 geo, lock, task, matches, acceptErrs, requests, pending, cancelled, workers>>
  /\ UNCHANGED payVars
  /\ UNCHANGED liveVars
  /\ notices' = [notices EXCEPT ![r] = @ + 1]
  /\ applied' = [applied EXCEPT ![r] = Append(@, "FAILED")]
  /\ UNCHANGED <<rideEvents, rideCache, published, reply, topic>>

\* the matcher's last awaits: trackActiveRide, then publishRideUpdate(FAILED)
matcherPublish(r) ==
  /\ matcher[r].pc = "publish"
  /\ matcher' = [matcher EXCEPT ![r] = DoneMatcher(matcher[r])]
  /\ published' = [published EXCEPT ![r] = @ + 1]
  /\ topic' = [topic EXCEPT ![r] = Append(@, "FAILED")]
  /\ UNCHANGED rideVarsButMatcher
  /\ UNCHANGED payVars
  /\ UNCHANGED liveVars
  /\ UNCHANGED <<rideEvents, rideCache, notices, reply, applied>>

\* ------------------------------------------------------------- cancelRide
\* tx.ride.findFirst({id, status notIn [COMPLETED, CANCELLED]}); none: NotFound.
\* The handler keeps the row it read (status, driverId).
cancelRead(t, r) ==
  /\ CanStart(t)
  /\ IF rideStatus[r] \notin {"NONE", "COMPLETED", "CANCELLED"}
     THEN /\ requests' = requests - 1
          /\ task' = [task EXCEPT ![t] = [IdleTask EXCEPT !.pc = "cancel_write", !.ride = r,
                                                            !.driver = rideDriver[r]]]
     ELSE UNCHANGED <<task, requests>>
  /\ UNCHANGED <<rideStatus, rideDriver, driverStatus, driverPos, tripStatus, tripDriver,
                 tripOtp, geo, lock, matcher, matches, acceptErrs, pending, cancelled, workers>>
  /\ UNCHANGED payVars
  /\ UNCHANGED liveVars
  /\ UNCHANGED obsVars

\* a cancelWrite that leaves the trip of the ride as it is
cancelWriteRideOnly(t) ==
  /\ task[t].pc = "cancel_write"
  /\ LET r == task[t].ride
         d == task[t].driver
     IN /\ rideStatus' = [rideStatus EXCEPT ![r] = "CANCELLED"]
        /\ driverStatus' = IF d # NoDriver THEN [driverStatus EXCEPT ![d] = "AVAILABLE"]
                           ELSE driverStatus
  /\ cancelled' = cancelled \cup {task[t].ride}
  /\ task' = [task EXCEPT ![t] = IdleTask]
  /\ UNCHANGED <<rideDriver, driverPos, tripStatus, tripDriver, tripOtp, geo, lock, matcher,
                 matches, acceptErrs, requests, pending, workers>>
  /\ UNCHANGED payVars
  /\ UNCHANGED liveVars
  /\ Announce(task[t].ride, IF task[t].driver # NoDriver THEN 2 ELSE 1)
  /\ UNCHANGED reply

\* ride := CANCELLED; the driver of the row read, if any, := AVAILABLE; the
\* trip of the ride, if one exists now, := CANCELLED; commit
cancelWrite(t) ==
  /\ task[t].pc = "cancel_write"
  /\ LET r == task[t].ride
         d == task[t].driver
     IN /\ rideStatus' = [rideStatus EXCEPT ![r] = "CANCELLED"]
        /\ driverStatus' = IF d # NoDriver THEN [driverStatus EXCEPT ![d] = "AVAILABLE"]
                           ELSE driverStatus
        /\ tripStatus' = IF tripStatus[r] # "NONE" THEN [tripStatus EXCEPT ![r] = "CANCELLED"]
                         ELSE tripStatus
  /\ cancelled' = cancelled \cup {task[t].ride}
  /\ task' = [task EXCEPT ![t] = IdleTask]
  /\ UNCHANGED <<rideDriver, driverPos, tripDriver, tripOtp, geo, lock, matcher, matches,
                 acceptErrs, requests, pending, workers>>
  /\ UNCHANGED payVars
  /\ UNCHANGED liveVars
  /\ Announce(task[t].ride, IF task[t].driver # NoDriver THEN 2 ELSE 1)
  /\ UNCHANGED reply

\* --------------------------------------------------- updateDriverArriving
\* tx.ride.findFirst({id, driverId, status: MATCHED}); none: NotFoundError
arrivingRead(t, r, d) ==
  /\ CanStart(t)
  /\ IF rideStatus[r] = "MATCHED" /\ rideDriver[r] = d
     THEN /\ requests' = requests - 1
          /\ task' = [task EXCEPT ![t] = [IdleTask EXCEPT !.pc = "arriving_write", !.ride = r,
                                                            !.driver = d]]
     ELSE UNCHANGED <<task, requests>>
  /\ UNCHANGED <<rideStatus, rideDriver, driverStatus, driverPos, tripStatus, tripDriver,
                 tripOtp, geo, lock, matcher, matches, acceptErrs, pending, cancelled, workers>>
  /\ UNCHANGED payVars
  /\ UNCHANGED liveVars
  /\ UNCHANGED obsVars

\* ride := DRIVER_ARRIVING; commit
arrivingWrite(t) ==
  /\ task[t].pc = "arriving_write"
  /\ rideStatus' = [rideStatus EXCEPT ![task[t].ride] = "DRIVER_ARRIVING"]
  /\ task' = [task EXCEPT ![t] = IdleTask]
  /\ UNCHANGED <<rideDriver, driverStatus, driverPos, tripStatus, tripDriver, tripOtp,
                 geo, lock, matcher, matches, acceptErrs, requests, pending, cancelled, workers>>
  /\ UNCHANGED payVars
  /\ UNCHANGED liveVars
  /\ Announce(task[t].ride, 1)
  /\ UNCHANGED reply

\* ------------------------------------------------------ markDriverArrived
\* tx.ride.findFirst({id, driverId, status: DRIVER_ARRIVING}); none: NotFoundError
arrivedRead(t, r, d) ==
  /\ CanStart(t)
  /\ IF rideStatus[r] = "DRIVER_ARRIVING" /\ rideDriver[r] = d
     THEN /\ requests' = requests - 1
          /\ task' = [task EXCEPT ![t] = [IdleTask EXCEPT !.pc = "arrived_write", !.ride = r,
                                                            !.driver = d]]
     ELSE UNCHANGED <<task, requests>>
  /\ UNCHANGED <<rideStatus, rideDriver, driverStatus, driverPos, tripStatus, tripDriver,
                 tripOtp, geo, lock, matcher, matches, acceptErrs, pending, cancelled, workers>>
  /\ UNCHANGED payVars
  /\ UNCHANGED liveVars
  /\ UNCHANGED obsVars

\* ride := ARRIVED; a fresh OTP is stored on the existing trip, or a trip is
\* created PENDING for this driver; commit
arrivedWrite(t) ==
  /\ task[t].pc = "arrived_write"
  /\ LET r == task[t].ride
     IN /\ rideStatus' = [rideStatus EXCEPT ![r] = "ARRIVED"]
        /\ \E otp \in OTPs : tripOtp' = [tripOtp EXCEPT ![r] = otp]
        /\ IF tripStatus[r] # "NONE"
           THEN UNCHANGED <<tripStatus, tripDriver>>
           ELSE /\ tripStatus' = [tripStatus EXCEPT ![r] = "PENDING"]
                /\ tripDriver' = [tripDriver EXCEPT ![r] = task[t].driver]
  /\ task' = [task EXCEPT ![t] = IdleTask]
  /\ UNCHANGED <<rideDriver, driverStatus, driverPos, geo, lock, matcher, matches,
                 acceptErrs, requests, pending, cancelled, workers>>
  /\ UNCHANGED payVars
  /\ UNCHANGED liveVars
  /\ Announce(task[t].ride, 1)
  /\ UNCHANGED reply

\* -------------------------------------------------------------- startTrip
\* startRead without the OTP test
startReadAnyOtp(t, r, otp) ==
  /\ CanStart(t)
  /\ IF tripStatus[r] = "PENDING"
     THEN /\ requests' = requests - 1
          /\ task' = [task EXCEPT ![t] = [IdleTask EXCEPT !.pc = "start_write", !.ride = r,
                                                            !.arg = otp]]
     ELSE UNCHANGED <<task, requests>>
  /\ UNCHANGED <<rideStatus, rideDriver, driverStatus, driverPos, tripStatus, tripDriver,
                 tripOtp, geo, lock, matcher, matches, acceptErrs, pending, cancelled, workers>>
  /\ UNCHANGED payVars
  /\ UNCHANGED liveVars
  /\ UNCHANGED obsVars

\* The trip of ride r is addressed by its id.  tx.trip.findUnique: none is
\* NotFound, status # PENDING is Validation, a wrong OTP is Validation.
startRead(t, r, otp) ==
  /\ CanStart(t)
  /\ IF tripStatus[r] = "PENDING" /\ tripOtp[r] # 0 /\ otp = tripOtp[r]
     THEN /\ requests' = requests - 1
          /\ task' = [task EXCEPT ![t] = [IdleTask EXCEPT !.pc = "start_write", !.ride = r,
                                                            !.arg = otp]]
          /\ UNCHANGED reply
     ELSE /\ UNCHANGED <<task, requests>>
          /\ reply' = IF tripStatus[r] = "PENDING"
                      THEN [op |-> "startTrip", ride |-> r, arg |-> otp, n |-> 0,
                            code |-> "Validation"]
                      ELSE reply
  /\ UNCHANGED <<rideStatus, rideDriver, driverStatus, driverPos, tripStatus, tripDriver,
                 tripOtp, geo, lock, matcher, matches, acceptErrs, pending, cancelled, workers>>
  /\ UNCHANGED payVars
  /\ UNCHANGED liveVars
  /\ UNCHANGED <<rideCache, rideEvents, published, notices, applied, topic>>

\* trip := STARTED (startTime := now); ride of the trip := IN_PROGRESS; commit
startWrite(t) ==
  /\ task[t].pc = "start_write"
  /\ tripStatus' = [tripStatus EXCEPT ![task[t].ride] = "STARTED"]
  /\ rideStatus' = [rideStatus EXCEPT ![task[t].ride] = "IN_PROGRESS"]
  /\ task' = [task EXCEPT ![t] = IdleTask]
  /\ UNCHANGED <<rideDriver, driverStatus, driverPos, tripDriver, tripOtp, geo, lock,
                 matcher, matches, acceptErrs, requests, pending, cancelled, workers>>
  /\ UNCHANGED payVars
  /\ UNCHANGED liveVars
  /\ Announce(task[t].ride, 1)
  /\ UNCHANGED reply

\* ---------------------------------------------------------------- endTrip
\* tx.trip.findUnique: none is NotFound, status # STARTED is Validation.
\* The handler keeps the row it read (rideId, driverId).
endRead(t, r) ==
  /\ CanStart(t)
  /\ IF tripStatus[r] = "STARTED"
     THEN /\ requests' = requests - 1
          /\ task' = [task EXCEPT ![t] = [IdleTask EXCEPT !.pc = "end_write", !.ride = r,
                                                            !.driver = tripDriver[r]]]
     ELSE UNCHANGED <<task, requests>>
  /\ UNCHANGED <<rideStatus, rideDriver, driverStatus, driverPos, tripStatus, tripDriver,
                 tripOtp, geo, lock, matcher, matches, acceptErrs, pending, cancelled, workers>>
  /\ UNCHANGED payVars
  /\ UNCHANGED liveVars
  /\ UNCHANGED obsVars

\* an endTrip transaction that commits whatever receipts rows exist
endWriteAgain(t) ==
  /\ task[t].pc = "end_write"
  /\ tripStatus' = [tripStatus EXCEPT ![task[t].ride] = "COMPLETED"]
  /\ rideStatus' = [rideStatus EXCEPT ![task[t].ride] = "COMPLETED"]
  /\ driverStatus' = [driverStatus EXCEPT ![task[t].driver] = "AVAILABLE"]
  /\ totalTrips' = [totalTrips EXCEPT ![task[t].driver] = @ + 1]
  /\ totalRides' = totalRides + 1
  /\ earnings' = [earnings EXCEPT ![task[t].ride] = @ + 1]
  /\ receipts' = [receipts EXCEPT ![task[t].ride] = @ + 1]
  /\ task' = [task EXCEPT ![t] = IdleTask]
  /\ UNCHANGED <<rideDriver, driverPos, tripDriver, tripOtp, geo, lock, matcher, matches,
                 acceptErrs, requests, pending, cancelled, workers>>
  /\ UNCHANGED payVars
  /\ UNCHANGED <<locVars, busVars>>
  /\ UNCHANGED <<rideKey, creates, fare, aborted>>
  /\ Announce(task[t].ride, 1)
  /\ UNCHANGED reply

\* trip := COMPLETED with the fare; ride := COMPLETED; driver of the trip :=
\* AVAILABLE, totalTrips + 1; rider totalRides + 1; an earnings row; a
\* receipts row; notification, event, invalidate, publish; commit.  The
\* unique index receipts_tripId_key rejects a second receipt of the trip:
\* receipt.create then throws, the transaction rolls back and endTrip returns
\* the error, before it has invalidated or published anything
endWrite(t) ==
  /\ task[t].pc = "end_write"
  /\ task' = [task EXCEPT ![t] = IdleTask]
  /\ IF receipts[task[t].ride] > 0
     THEN /\ UNCHANGED <<tripStatus, rideStatus, driverStatus, totalTrips, totalRides,
                         earnings, receipts>>
          /\ UNCHANGED obsVars
          /\ aborted' = aborted \cup {[op |-> "endTrip", ride |-> task[t].ride]}
     ELSE /\ tripStatus' = [tripStatus EXCEPT ![task[t].ride] = "COMPLETED"]
          /\ rideStatus' = [rideStatus EXCEPT ![task[t].ride] = "COMPLETED"]
          /\ driverStatus' = [driverStatus EXCEPT ![task[t].driver] = "AVAILABLE"]
          /\ totalTrips' = [totalTrips EXCEPT ![task[t].driver] = @ + 1]
          /\ totalRides' = totalRides + 1
          /\ earnings' = [earnings EXCEPT ![task[t].ride] = @ + 1]
          /\ receipts' = [receipts EXCEPT ![task[t].ride] = @ + 1]
          /\ Announce(task[t].ride, 1)
          /\ UNCHANGED <<reply, aborted>>
  /\ UNCHANGED <<rideDriver, driverPos, tripDriver, tripOtp, geo, lock, matcher, matches,
                 acceptErrs, requests, pending, cancelled, workers>>
  /\ UNCHANGED payVars
  /\ UNCHANGED <<locVars, busVars>>
  /\ UNCHANGED <<rideKey, creates, fare>>

\* ------------------------------------------------------------------ fare
\* Money is counted in hundredths of a rupee, distance in tenths of a km,
\* duration in seconds and the surge multiplier in tenths; every
\* intermediate value of calculateFare is kept exact, as a numerator over a
\* fixed denominator.
FareInputs ==
  [pc : {"in"}, baseFare : {0, 5, 5000}, perKmRate : {0, 1200}, perMinRate : {0, 200},
   distance : {0, 123}, duration : {0, 100, 1234}, surgeMultiplier : {10, 15},
   discount : {0, 100, 1000000}]

Max(a, b) == IF a > b THEN a ELSE b

\* Math.round(x * 100) / 100 of the non-negative amount n / den hundredths:
\* the nearest hundredth, a tie going up
Round(n, den) == (2 * n + den) \div (2 * den)

\* the nearest hundredth, a tie going to the even one
RoundHalfEven(n, den) ==
  LET q == n \div den
      twice == 2 * (n % den)
  IN IF twice < den THEN q
     ELSE IF twice > den THEN q + 1
     ELSE IF q % 2 = 0 THEN q ELSE q + 1

\* the exact values of calculateFare, as numerators: distanceFare over 10,
\* timeFare over 60, surgeAmount, totalFare and finalFare over 600,
\* platformFee and driverEarnings over 3000
Exact(f) ==
  LET sub == 60 * f.baseFare + 6 * f.distance * f.perKmRate + f.duration * f.perMinRate
      final == Max(0, sub * f.surgeMultiplier - 600 * f.discount)
  IN [distanceFare |-> f.distance * f.perKmRate,
      timeFare |-> f.duration * f.perMinRate,
      surgeAmount |-> sub * (f.surgeMultiplier - 10),
      totalFare |-> sub * f.surgeMultiplier,
      finalFare |-> final,
      platformFee |-> final,
      driverEarnings |-> 4 * final]

Denominator ==
  [distanceFare |-> 10, timeFare |-> 60, surgeAmount |-> 600, totalFare |-> 600,
   finalFare |-> 600, platformFee |-> 3000, driverEarnings |-> 3000]

Outputs == DOMAIN Denominator

\* calculateFare: every output is rounded on its own
calculateFare(f) == [o \in Outputs |-> Round(Exact(f)[o], Denominator[o])]

\* endTrip calls calculateFare on the inputs in hand
computeFare ==
  /\ fare.pc = "in"
  /\ fare' = [pc |-> "out", input |-> fare, output |-> calculateFare(fare)]
  /\ UNCHANGED rideVars
  /\ UNCHANGED payVars
  /\ UNCHANGED obsVars
  /\ UNCHANGED <<locVars, busVars>>
  /\ UNCHANGED <<rideKey, creates, receipts, earnings, totalTrips, totalRides, aborted>>

\* ------------------------------------------------------------ getRideById
\* getCachedRide: a cached ride object is returned as it is; otherwise the
\* ride is read from the store (none: NotFound), cached and returned
getRideById(r) ==
  /\ rideStatus[r] # "NONE"
  /\ LET st == IF rideCache[r] # NoCache THEN rideCache[r] ELSE rideStatus[r]
     IN /\ reply' = [op |-> "getRide", ride |-> r, arg |-> 0, code |-> st, n |-> 1 - reply.n]
        /\ rideCache' = [rideCache EXCEPT ![r] = st]
  /\ UNCHANGED <<rideEvents, published, notices, applied, topic>>
  /\ UNCHANGED rideVars
  /\ UNCHANGED liveVars
  /\ UNCHANGED payVars

\* The TTL of a cached ride object elapses.
CacheExpire(r) ==
  /\ rideCache[r] # NoCache
  /\ rideCache' = [rideCache EXCEPT ![r] = NoCache]
  /\ UNCHANGED <<rideEvents, published, notices, reply, applied, topic>>
  /\ UNCHANGED rideVars
  /\ UNCHANGED liveVars
  /\ UNCHANGED payVars

\* ----------------------------------------------- updateDriverAvailability
StatusArg == [OFFLINE |-> 1, AVAILABLE |-> 2, ON_RIDE |-> 3, BREAK |-> 4]

\* getDriverFromDb, then updateDriverStatusInDb: drivers.status := status
availUpdate(t, d, st) ==
  /\ CanStart(t)
  /\ driverStatus[d] # "NONE"
  /\ requests' = requests - 1
  /\ driverStatus' = [driverStatus EXCEPT ![d] = st]
  /\ task' = [task EXCEPT ![t] = [IdleTask EXCEPT !.pc = "avail_geo", !.driver = d,
                                                  !.arg = StatusArg[st]]]
  /\ UNCHANGED <<rideStatus, rideDriver, driverPos, tripStatus, tripDriver, tripOtp, geo,
                 lock, matcher, matches, acceptErrs, pending, cancelled, workers>>
  /\ UNCHANGED payVars
  /\ UNCHANGED liveVars
  /\ UNCHANGED obsVars

\* AVAILABLE: addAvailableDriver when the position read is set; any other
\* status: removeAvailableDriver
availGeo(t) ==
  /\ task[t].pc = "avail_geo"
  /\ LET d == task[t].driver
     IN geo' = IF task[t].arg = StatusArg["AVAILABLE"]
               THEN (IF d \in driverPos THEN geo \cup {d} ELSE geo)
               ELSE geo \ {d}
  /\ task' = [task EXCEPT ![t] = IdleTask]
  /\ UNCHANGED <<rideStatus, rideDriver, driverStatus, driverPos, tripStatus, tripDriver,
                 tripOtp, lock, matcher, matches, acceptErrs, requests, pending, cancelled, workers>>
  /\ UNCHANGED payVars
  /\ UNCHANGED liveVars
  /\ UNCHANGED obsVars

\* --------------------------------------------------------- processPayment
Respond(r, k, body) == responses' = [responses EXCEPT ![k] = @ \cup {<<r, body>>}]

\* checkIdempotency (SET NX); a repeated key with a cached response returns
\* it, a repeated key without one carries on like a first request
payCheck(p, r, k) ==
  /\ payTask[p].pc = "idle"
  /\ payRequests > 0
  /\ payRequests' = payRequests - 1
  /\ idemKeys' = idemKeys \cup {k}
  /\ IF k \in idemKeys /\ idemResp[k] # NoResp
     THEN /\ Respond(r, k, SuccessBody(FromJson(idemResp[k])))
          /\ UNCHANGED payTask
     ELSE /\ payTask' = [payTask EXCEPT ![p] = [IdlePay EXCEPT !.pc = "pay_read", !.trip = r, !.key = k]]
          /\ UNCHANGED responses
  /\ UNCHANGED <<payments, idemResp, charges, refunds, outcomes>>
  /\ UNCHANGED rideVars
  /\ UNCHANGED liveVars
  /\ UNCHANGED obsVars

\* payRead without the test of the trip's status
payReadAnyTrip(p) ==
  /\ payTask[p].pc = "pay_read"
  /\ payTask' = [payTask EXCEPT ![p].pc = "pay_insert"]
  /\ UNCHANGED <<payments, idemKeys, idemResp, charges, payRequests, refunds, outcomes,
                 responses>>
  /\ UNCHANGED rideVars
  /\ UNCHANGED liveVars
  /\ UNCHANGED obsVars

\* tx.trip.findUnique: none is NotFound, status # COMPLETED is Validation;
\* tx.payment.findUnique({tripId}): a COMPLETED row is returned as it is
payRead(p) ==
  /\ payTask[p].pc = "pay_read"
  /\ LET r == payTask[p].trip
         k == payTask[p].key
         existing == {row \in payments : row.trip = r}
     IN IF tripStatus[r] # "COMPLETED"
        THEN /\ Respond(r, k, FailureBody)
             /\ payTask' = [payTask EXCEPT ![p] = IdlePay]
        ELSE IF \E row \in existing : row.status = "COMPLETED"
        THEN /\ Respond(r, k, SuccessBody(ResponseOf(CHOOSE row \in existing : row.status = "COMPLETED")))
             /\ payTask' = [payTask EXCEPT ![p] = IdlePay]
        ELSE /\ payTask' = [payTask EXCEPT ![p].pc = "pay_insert"]
             /\ UNCHANGED responses
  /\ UNCHANGED <<payments, idemKeys, idemResp, charges, payRequests, refunds, outcomes>>
  /\ UNCHANGED rideVars
  /\ UNCHANGED liveVars
  /\ UNCHANGED obsVars

\* tx.payment.create: waits while another transaction holds an uncommitted
\* row with the same tripId or idempotencyKey; fails on the unique indexes
\* when a committed row has either
payInsert(p) ==
  /\ payTask[p].pc = "pay_insert"
  /\ LET r == payTask[p].trip
         k == payTask[p].key
     IN /\ ~\E q \in PayTasks \ {p} :
              /\ payTask[q].pc \in {"pay_psp", "pay_commit"}
              /\ (payTask[q].trip = r \/ payTask[q].key = k)
        /\ IF \E row \in payments : row.trip = r \/ row.key = k
           THEN /\ Respond(r, k, FailureBody)
                /\ payTask' = [payTask EXCEPT ![p] = IdlePay]
           ELSE /\ payTask' = [payTask EXCEPT ![p].pc = "pay_psp"]
                /\ UNCHANGED responses
  /\ UNCHANGED <<payments, idemKeys, idemResp, charges, payRequests, refunds, outcomes>>
  /\ UNCHANGED rideVars
  /\ UNCHANGED liveVars
  /\ UNCHANGED obsVars

TotalCharges == charges["r1"] + charges["r2"]

\* processPSPPayment: the PSP accepts or declines the charge
payCharge(p, ok) ==
  /\ payTask[p].pc = "pay_psp"
  /\ charges' = [charges EXCEPT ![payTask[p].trip] = @ + 1]
  /\ payTask' = [payTask EXCEPT ![p].pc = "pay_commit", ![p].ok = ok,
                                ![p].txn = IF ok THEN TotalCharges + 1 ELSE 0]
  /\ UNCHANGED <<payments, idemKeys, idemResp, responses, payRequests, refunds, outcomes>>
  /\ UNCHANGED rideVars
  /\ UNCHANGED liveVars
  /\ UNCHANGED obsVars

\* tx.payment.update with the PSP result, storeIdempotentResponse, commit
payCommit(p) ==
  /\ payTask[p].pc = "pay_commit"
  /\ LET k == payTask[p].key
         row == [trip |-> payTask[p].trip, key |-> k,
                 status |-> IF payTask[p].ok THEN "COMPLETED" ELSE "FAILED",
                 attempts |-> 1, txn |-> payTask[p].txn, created |-> Cardinality(payments) + 1]
     IN /\ payments' = payments \cup {row}
        /\ idemResp' = [idemResp EXCEPT ![k] = ToJson(ResponseOf(row))]
        /\ Respond(payTask[p].trip, k, SuccessBody(ResponseOf(row)))
  /\ payTask' = [payTask EXCEPT ![p] = IdlePay]
  /\ UNCHANGED <<idemKeys, charges, payRequests, refunds, outcomes>>
  /\ UNCHANGED rideVars
  /\ UNCHANGED liveVars
  /\ UNCHANGED obsVars

\* ----------------------------------------------------------- retryPayment
\* the payments row of a trip (tripId is unique); payments are addressed by
\* the trip they belong to
PaymentOf(r) == CHOOSE row \in payments : row.trip = r
HasPayment(r) == \E row \in payments : row.trip = r

\* a transaction that has updated a payments row holds its row lock until it
\* commits
RowLocked(r) == \E q \in PayTasks : payTask[q].pc = "retry_commit" /\ payTask[q].trip = r

Outcome(op, r, amount, result) ==
  outcomes' = outcomes \cup
    {[op |-> op, status |-> PaymentOf(r).status, attempts |-> PaymentOf(r).attempts,
      amount |-> amount, result |-> result]}

\* tx.payment.findUnique: none is NotFound; COMPLETED is Validation;
\* attempts >= maxAttempts is Validation
retryRead(p, r) ==
  /\ payTask[p].pc = "idle"
  /\ payRequests > 0
  /\ payRequests' = payRequests - 1
  /\ HasPayment(r)
  /\ IF PaymentOf(r).status = "COMPLETED" \/ PaymentOf(r).attempts >= MaxPayAttempts
     THEN /\ Outcome("retry", r, 0, "Validation")
          /\ UNCHANGED payTask
     ELSE /\ Outcome("retry", r, 0, "ok")
          /\ payTask' = [payTask EXCEPT ![p] = [IdlePay EXCEPT !.pc = "retry_update", !.trip = r]]
  /\ UNCHANGED <<payments, idemKeys, idemResp, charges, responses, refunds>>
  /\ UNCHANGED rideVars
  /\ UNCHANGED liveVars
  /\ UNCHANGED obsVars

\* tx.payment.update {status: PROCESSING, attempts: {increment: 1}}: waits for
\* the row lock, then increments the attempts of the committed row
retryUpdate(p) ==
  /\ payTask[p].pc = "retry_update"
  /\ ~RowLocked(payTask[p].trip)
  /\ payTask' = [payTask EXCEPT ![p].pc = "retry_commit"]
  /\ UNCHANGED <<payments, idemKeys, idemResp, charges, responses, payRequests, refunds,
                 outcomes>>
  /\ UNCHANGED rideVars
  /\ UNCHANGED liveVars
  /\ UNCHANGED obsVars

\* processPSPPayment, tx.payment.update with the PSP result, commit
retryCommit(p, ok) ==
  /\ payTask[p].pc = "retry_commit"
  /\ LET r == payTask[p].trip
         row == PaymentOf(r)
     IN /\ charges' = [charges EXCEPT ![r] = @ + 1]
        /\ payments' = (payments \ {row}) \cup
             {[row EXCEPT !.status = IF ok THEN "COMPLETED" ELSE "FAILED",
                          !.attempts = @ + 1,
                          !.txn = IF ok THEN TotalCharges + 1 ELSE row.txn]}
  /\ payTask' = [payTask EXCEPT ![p] = IdlePay]
  /\ UNCHANGED <<idemKeys, idemResp, responses, payRequests, refunds, outcomes>>
  /\ UNCHANGED rideVars
  /\ UNCHANGED liveVars
  /\ UNCHANGED obsVars

\* ---------------------------------------------------------- processRefund
\* the amount is the request body's number: nothing tests it from below
RefundAmounts == 0..(Fare + 1)

\* refundRead without the test of the payment's status
refundReadAnyStatus(p, r, amount) ==
  /\ payTask[p].pc = "idle"
  /\ payRequests > 0
  /\ payRequests' = payRequests - 1
  /\ HasPayment(r)
  /\ IF amount > Fare
     THEN /\ Outcome("refund", r, amount, "Validation")
          /\ UNCHANGED payTask
     ELSE /\ Outcome("refund", r, amount, "ok")
          /\ payTask' = [payTask EXCEPT ![p] = [IdlePay EXCEPT !.pc = "refund_write", !.trip = r,
                                                               !.amount = amount]]
  /\ UNCHANGED <<payments, idemKeys, idemResp, charges, responses, refunds>>
  /\ UNCHANGED rideVars
  /\ UNCHANGED liveVars
  /\ UNCHANGED obsVars

\* tx.payment.findUnique: none is NotFound; status # COMPLETED is Validation;
\* amount > payment.amount is Validation
refundRead(p, r, amount) ==
  /\ payTask[p].pc = "idle"
  /\ payRequests > 0
  /\ payRequests' = payRequests - 1
  /\ HasPayment(r)
  /\ IF PaymentOf(r).status # "COMPLETED" \/ amount > Fare
     THEN /\ Outcome("refund", r, amount, "Validation")
          /\ UNCHANGED payTask
     ELSE /\ Outcome("refund", r, amount, "ok")
          /\ payTask' = [payTask EXCEPT ![p] = [IdlePay EXCEPT !.pc = "refund_write", !.trip = r,
                                                               !.amount = amount]]
  /\ UNCHANGED <<payments, idemKeys, idemResp, charges, responses, refunds>>
  /\ UNCHANGED rideVars
  /\ UNCHANGED liveVars
  /\ UNCHANGED obsVars

\* tx.refund.create, tx.refund.update COMPLETED, tx.payment.update (waits for
\* the row lock): REFUNDED when amount = payment.amount, else
\* PARTIALLY_REFUNDED; commit
refundWrite(p) ==
  /\ payTask[p].pc = "refund_write"
  /\ LET r == payTask[p].trip
         row == PaymentOf(r)
     IN /\ ~RowLocked(r)
        /\ refunds' = [refunds EXCEPT ![r] = Append(@, payTask[p].amount)]
        /\ payments' = (payments \ {row}) \cup
             {[row EXCEPT !.status = IF payTask[p].amount = Fare THEN "REFUNDED"
                                     ELSE "PARTIALLY_REFUNDED"]}
  /\ payTask' = [payTask EXCEPT ![p] = IdlePay]
  /\ UNCHANGED <<idemKeys, idemResp, charges, responses, payRequests, outcomes>>
  /\ UNCHANGED rideVars
  /\ UNCHANGED liveVars
  /\ UNCHANGED obsVars

\* --------------------------------------------------------- specifications
\* -------------------------------------------------------- location ingest
Min(a, b) == IF a < b THEN a ELSE b

\* a splice that takes the oldest entry only
spliceOne(q) == [taken |-> <<Head(q)>>, rest |-> Tail(q)]

\* locationUpdateQueue.splice(0): every entry is taken, none is left
splice(q) == [taken |-> q, rest |-> <<>>]

\* the pings of a batch as they go into the pipeline
Strip(q) == [i \in DOMAIN q |-> [driver |-> q[i].driver, n |-> q[i].n]]

\* history: the drivers with a ping in a pipeline that has not been answered
InFlight ==
  UNION {{pipelines[i].pings[k].driver : k \in DOMAIN pipelines[i].pings} : i \in DOMAIN pipelines}

\* a processLocationBatch that leaves the timer as it is when it drains
processLocationBatchKeepTimer(q, c) ==
  IF q = <<>>
  THEN /\ locationUpdateQueue' = q
       /\ batchTimeout' = IF c = "timer" THEN Fired ELSE batchTimeout
       /\ pipelines' = pipelines
  ELSE /\ locationUpdateQueue' = splice(q).rest
       /\ batchTimeout' = IF c = "timer" THEN Fired ELSE batchTimeout
       /\ pipelines' = Append(pipelines, [pings |-> Strip(splice(q).taken), caller |-> c,
                                           lap |-> InFlight])

\* processLocationBatch up to its await, run on the array q by caller c (a
\* driver's request, or "timer"): nothing on an empty array; otherwise the
\* array is spliced, the timer cleared and one pipeline of geoadd / hmset
\* commands is sent with exec()
processLocationBatch(q, c) ==
  IF q = <<>>
  THEN /\ locationUpdateQueue' = q
       /\ batchTimeout' = IF c = "timer" THEN Fired ELSE batchTimeout
       /\ pipelines' = pipelines
  ELSE /\ locationUpdateQueue' = splice(q).rest
       /\ batchTimeout' = NoTimer
       /\ pipelines' = Append(pipelines, [pings |-> Strip(splice(q).taken), caller |-> c,
                                           lap |-> InFlight])

\* queueLocationUpdate: push; at the size threshold await processLocationBatch,
\* else set the timer unless one is set
queueLocationUpdate(d) ==
  LET q == Append(locationUpdateQueue, [driver |-> d, n |-> ingested[d] + 1, age |-> 0])
  IN /\ ingested' = [ingested EXCEPT ![d] = @ + 1]
     /\ IF Len(q) >= BatchSize
        THEN /\ processLocationBatch(q, d)
             /\ pinger' = [pinger EXCEPT ![d] = "flush"]
        ELSE /\ locationUpdateQueue' = q
             /\ batchTimeout' = IF batchTimeout = NoTimer THEN 0 ELSE batchTimeout
             /\ pipelines' = pipelines
             /\ pinger' = [pinger EXCEPT ![d] = "trip"]

\* updateDriverLocation of the driver service, up to the end of its
\* queueLocationUpdate call: the driver is looked up (none: BadRequestError)
updateDriverLocation(d) ==
  /\ pings > 0
  /\ pinger[d] = "idle"
  /\ driverStatus[d] # "NONE"
  /\ pings' = pings - 1
  /\ queueLocationUpdate(d)
  /\ UNCHANGED <<written, locPublished, lost>>
  /\ UNCHANGED rideVars
  /\ UNCHANGED payVars
  /\ UNCHANGED obsVars
  /\ UNCHANGED busVars
  /\ UNCHANGED moreVars

\* getActiveTrip: trips of the driver in PENDING or STARTED
getActiveTrip(d) == {r \in Rides : tripDriver[r] = d /\ tripStatus[r] \in {"PENDING", "STARTED"}}

\* the rest of updateDriverLocation: with an active trip, publish on
\* location:<driverId> and on ride:<rideId>
updateDriverLocationPublish(d) ==
  /\ pinger[d] = "trip"
  /\ pinger' = [pinger EXCEPT ![d] = "idle"]
  /\ IF getActiveTrip(d) = {}
     THEN UNCHANGED <<published, locPublished>>
     ELSE \E r \in getActiveTrip(d) :
            /\ locPublished' = [locPublished EXCEPT ![d] = @ + 1]
            /\ published' = [published EXCEPT ![r] = @ + 1]
  /\ UNCHANGED <<locationUpdateQueue, batchTimeout, pipelines, written, ingested, lost, pings>>
  /\ UNCHANGED rideVars
  /\ UNCHANGED payVars
  /\ UNCHANGED <<rideCache, rideEvents, notices, reply, applied, topic>>
  /\ UNCHANGED busVars
  /\ UNCHANGED moreVars

\* any pipeline in flight may be answered next
AnyReply(ps) == DOMAIN ps

\* redisClient is one connection: the server executes and answers the
\* pipelines in the order they were sent
NextReply(ps) == {1}

Remove(ps, i) == [j \in 1..(Len(ps) - 1) |-> IF j < i THEN ps[j] ELSE ps[j + 1]]

RECURSIVE PingsOf(_, _, _)
PingsOf(b, d, lap) ==
  IF b = <<>> THEN <<>>
  ELSE (IF Head(b).driver = d THEN <<[n |-> Head(b).n, lap |-> lap]>> ELSE <<>>)
       \o PingsOf(Tail(b), d, lap)

\* pipeline.exec() settles.  Resolved: every geoadd of the batch has been
\* applied to drivers:available.  Rejected: nothing is written, the batch is
\* gone, and the rejection propagates through queueLocationUpdate into the
\* request that awaited the drain
pipelineExec(ok) ==
  /\ pipelines # <<>>
  /\ \E i \in NextReply(pipelines) :
       LET b == pipelines[i]
       IN /\ pipelines' = Remove(pipelines, i)
          /\ IF ok
             THEN /\ geo' = geo \cup {b.pings[k].driver : k \in DOMAIN b.pings}
                  /\ written' = [d \in Drivers |-> written[d] \o PingsOf(b.pings, d, d \in b.lap)]
                  /\ lost' = lost
             ELSE /\ UNCHANGED <<geo, written>>
                  /\ lost' = [batches |-> lost.batches + 1,
                              thrown |-> lost.thrown + (IF b.caller \in Drivers THEN 1 ELSE 0)]
          /\ pinger' = IF b.caller \in Drivers
                       THEN [pinger EXCEPT ![b.caller] = IF ok THEN "trip" ELSE "idle"]
                       ELSE pinger
  /\ UNCHANGED <<locationUpdateQueue, batchTimeout, ingested, locPublished, pings>>
  /\ UNCHANGED <<rideStatus, rideDriver, driverStatus, driverPos, tripStatus, tripDriver,
                 tripOtp, lock, task, matcher, matches, acceptErrs, cancelled, requests,
                 pending, workers>>
  /\ UNCHANGED payVars
  /\ UNCHANGED obsVars
  /\ UNCHANGED busVars
  /\ UNCHANGED moreVars

\* One tick of the clock.  A set timer runs its callback when its delay has
\* elapsed: time does not pass beyond that point before TimerFire.
Tick ==
  /\ \/ batchTimeout \in 0..(BatchInterval - 1)
     \/ /\ batchTimeout \notin 0..BatchInterval
        /\ \E i \in DOMAIN locationUpdateQueue : locationUpdateQueue[i].age <= BatchInterval
  /\ batchTimeout' = IF batchTimeout \in 0..(BatchInterval - 1) THEN batchTimeout + 1
                     ELSE batchTimeout
  /\ locationUpdateQueue' = [i \in DOMAIN locationUpdateQueue |->
                               [locationUpdateQueue[i] EXCEPT !.age = Min(@ + 1, BatchInterval + 1)]]
  /\ UNCHANGED <<pipelines, written, ingested, pinger, locPublished, lost, pings>>
  /\ UNCHANGED rideVars
  /\ UNCHANGED payVars
  /\ UNCHANGED obsVars
  /\ UNCHANGED busVars
  /\ UNCHANGED moreVars

\* setTimeout(processLocationBatch, batchInterval) runs its callback
TimerFire ==
  /\ batchTimeout = BatchInterval
  /\ processLocationBatch(locationUpdateQueue, "timer")
  /\ UNCHANGED <<written, ingested, pinger, locPublished, lost, pings>>
  /\ UNCHANGED rideVars
  /\ UNCHANGED payVars
  /\ UNCHANGED obsVars
  /\ UNCHANGED busVars
  /\ UNCHANGED moreVars

\* ------------------------------------------------------------ update bus
\* subscribeToRideUpdates / subscribeToLocationUpdates called for a socket:
\* SUBSCRIBE channel on the shared redisSubscriber connection, and one more
\* 'message' listener that filters on the channel
subscribeToUpdates(s, c) ==
  /\ busRequests > 0
  /\ <<s, c>> \notin handlers
  /\ busRequests' = busRequests - 1
  /\ subscribed' = subscribed \cup {c}
  /\ handlers' = handlers \cup {<<s, c>>}
  /\ UNCHANGED <<delivered, sent>>
  /\ UNCHANGED rideVars
  /\ UNCHANGED payVars
  /\ UNCHANGED obsVars
  /\ UNCHANGED locVars
  /\ UNCHANGED moreVars

\* the socket disconnects: the disposer of each of its subscriptions runs,
\* redisSubscriber.off('message', handler) and redisSubscriber.unsubscribe(channel)
disconnect(s) ==
  /\ busRequests > 0
  /\ \E c \in Channels : <<s, c>> \in handlers
  /\ busRequests' = busRequests - 1
  /\ handlers' = {h \in handlers : h[1] # s}
  /\ subscribed' = subscribed \ {h[2] : h \in {g \in handlers : g[1] = s}}
  /\ UNCHANGED <<delivered, sent>>
  /\ UNCHANGED rideVars
  /\ UNCHANGED payVars
  /\ UNCHANGED obsVars
  /\ UNCHANGED locVars
  /\ UNCHANGED moreVars

\* redisPublisher.publish(channel, message): Redis sends the message to the
\* connections subscribed to the channel; redisSubscriber emits 'message' and
\* each listener whose channel matches calls its socket's callback
publish(c) ==
  /\ busRequests > 0
  /\ busRequests' = busRequests - 1
  /\ sent' = [sent EXCEPT ![c] = @ + 1]
  /\ delivered' = [s \in Sockets |-> [k \in Channels |->
                     IF k = c /\ c \in subscribed /\ <<s, c>> \in handlers
                     THEN delivered[s][k] + 1 ELSE delivered[s][k]]]
  /\ UNCHANGED <<handlers, subscribed>>
  /\ UNCHANGED rideVars
  /\ UNCHANGED payVars
  /\ UNCHANGED obsVars
  /\ UNCHANGED locVars
  /\ UNCHANGED moreVars


\* ------------------------------------------------- transactions that fail
\* What a transaction callback has done outside the database when its
\* transaction does not commit (the database refuses the COMMIT, or the
\* interactive transaction has timed out): invalidateRideCache and
\* publishRideUpdate have run, with the status the callback wrote; every row
\* is as it was
Uncommitted(op, r, st) ==
  /\ rideCache' = [rideCache EXCEPT ![r] = NoCache]
  /\ published' = [published EXCEPT ![r] = @ + 1]
  /\ topic' = [topic EXCEPT ![r] = Append(@, st)]
  /\ aborted' = aborted \cup {[op |-> op, ride |-> r]}
  /\ UNCHANGED <<rideEvents, notices, reply, applied>>
  /\ UNCHANGED <<rideStatus, rideDriver, driverStatus, driverPos, tripStatus, tripDriver,
                 tripOtp, matches, acceptErrs, requests, pending, cancelled, workers>>
  /\ UNCHANGED payVars
  /\ UNCHANGED <<locVars, busVars>>
  /\ UNCHANGED <<rideKey, creates, receipts, earnings, totalTrips, totalRides, fare>>

\* acceptRide whose transaction does not commit: removeAvailableDriver has
\* run as well; the error leaves through the finally-clause of withLock
acceptAbort(t) ==
  /\ task[t].pc = "acc_write"
  /\ geo' = geo \ {task[t].driver}
  /\ lock' = Released(task[t].ride, t)
  /\ task' = [task EXCEPT ![t] = IdleTask]
  /\ UNCHANGED matcher
  /\ Uncommitted("acceptRide", task[t].ride, "MATCHED")

\* matchRideWithDriver whose transaction does not commit: the catch returns
\* success: false and the matcher goes on with its loop
matchAbort(r) ==
  /\ matcher[r].pc = "m_write"
  /\ lock' = Released(r, r)
  /\ matcher' = [matcher EXCEPT ![r] = NextCandidate(matcher[r])]
  /\ UNCHANGED <<geo, task>>
  /\ Uncommitted("matchRideWithDriver", r, "MATCHED")

\* cancelRide whose transaction does not commit
cancelAbort(t) ==
  /\ task[t].pc = "cancel_write"
  /\ task' = [task EXCEPT ![t] = IdleTask]
  /\ UNCHANGED <<geo, lock, matcher>>
  /\ Uncommitted("cancelRide", task[t].ride, "CANCELLED")

\* startTrip whose transaction does not commit
startAbort(t) ==
  /\ task[t].pc = "start_write"
  /\ task' = [task EXCEPT ![t] = IdleTask]
  /\ UNCHANGED <<geo, lock, matcher>>
  /\ Uncommitted("startTrip", task[t].ride, "IN_PROGRESS")

\* endTrip whose transaction does not commit after its last statement
endAbort(t) ==
  /\ task[t].pc = "end_write"
  /\ receipts[task[t].ride] = 0
  /\ task' = [task EXCEPT ![t] = IdleTask]
  /\ UNCHANGED <<geo, lock, matcher>>
  /\ Uncommitted("endTrip", task[t].ride, "COMPLETED")

AbortSteps ==
  \/ \E t \in Tasks : acceptAbort(t)
  \/ \E r \in Rides : matchAbort(r)
  \/ \E t \in Tasks : cancelAbort(t)
  \/ \E t \in Tasks : startAbort(t)
  \/ \E t \in Tasks : endAbort(t)

CreateSteps == \E r \in Rides : createRide(r)

ExpireSteps == \E r \in Rides : LockExpire(r)

AcceptSteps ==
  \/ \E t \in Tasks, r \in Rides, d \in Drivers : acceptAcquire(t, r, d)
  \/ \E t \in Tasks : acceptReadRide(t)
  \/ \E t \in Tasks : acceptReadDriver(t)
  \/ \E t \in Tasks : acceptWrite(t)

MatcherSteps ==
  \/ \E r \in Rides : matcherQuery(r)
  \/ \E r \in Rides : matcherCheck(r)
  \/ \E r \in Rides : matchAcquire(r)
  \/ \E r \in Rides : matchReadRide(r)
  \/ \E r \in Rides : matchReadDriver(r)
  \/ \E r \in Rides : matchWrite(r)
  \/ \E r \in Rides : matcherFail(r)
  \/ \E r \in Rides : matcherPublish(r)

CancelSteps ==
  \/ \E t \in Tasks, r \in Rides : cancelRead(t, r)
  \/ \E t \in Tasks : cancelWrite(t)

PickupSteps ==
  \/ \E t \in Tasks, r \in Rides, d \in Drivers : arrivingRead(t, r, d)
  \/ \E t \in Tasks : arrivingWrite(t)
  \/ \E t \in Tasks, r \in Rides, d \in Drivers : arrivedRead(t, r, d)
  \/ \E t \in Tasks : arrivedWrite(t)

TripSteps ==
  \/ \E t \in Tasks, r \in Rides, otp \in OTPs : startRead(t, r, otp)
  \/ \E t \in Tasks : startWrite(t)
  \/ \E t \in Tasks, r \in Rides : endRead(t, r)
  \/ \E t \in Tasks : endWrite(t)

ViewSteps ==
  \/ \E r \in Rides : getRideById(r)
  \/ \E r \in Rides : CacheExpire(r)
AvailSteps ==
  \/ \E t \in Tasks, d \in Drivers, st \in DriverStatus : availUpdate(t, d, st)
  \/ \E t \in Tasks : availGeo(t)

\* Matching and cancellation of one ride contended by two drivers.
InitMatch == InitPop({"r1"}, {"d1", "d2"}, {"t1", "t2"}, MatchRequests)
NextMatch == CreateSteps \/ ExpireSteps \/ AcceptSteps \/ MatcherSteps \/ CancelSteps
SpecMatch == InitMatch /\ [][NextMatch]_vars

\* Matching to its end, with one request task.  The matcher is a detached
\* promise chain of the server process: each of its continuations runs once
\* its await (query, transaction, 5 s timer) settles.
InitExhaust == InitPop({"r1"}, {"d1", "d2"}, {"t1"}, ExhaustRequests)
NextExhaust == CreateSteps \/ ExpireSteps \/ AcceptSteps \/ MatcherSteps \/ CancelSteps
SpecExhaust == InitExhaust /\ [][NextExhaust]_vars /\ WF_vars(MatcherSteps)

\* The life of one ride from creation to its end, one driver.
InitTrip == InitPop({"r1"}, {"d1"}, {"t1", "t2"}, TripRequests)
NextTrip ==
  CreateSteps \/ ExpireSteps \/ AcceptSteps \/ MatcherSteps \/ CancelSteps \/ PickupSteps \/ TripSteps
SpecTrip == InitTrip /\ [][NextTrip]_vars

\* Two rides and one driver who accepts rides and switches availability.
InitFleet == InitPop({"r1", "r2"}, {"d1"}, {"t1", "t2"}, FleetRequests)
NextFleet == CreateSteps \/ ExpireSteps \/ AcceptSteps \/ CancelSteps \/ AvailSteps
SpecFleet == InitFleet /\ [][NextFleet]_vars

\* ------------------------------------------------------------------ claims
Quiescent ==
  /\ \A t \in Tasks : Idle(t)
  /\ \A r \in Rides : matcher[r].pc \in {"off", "done"}

AssignedDrivers(r) == {matches[r][i] : i \in DOMAIN matches[r]}

ActiveRidesOf(d) == {r \in Rides : rideDriver[r] = d /\ rideStatus[r] \in ActiveStatus}

\* C1: of the acceptRide / matchRideWithDriver calls made for one ride, at
\* most one transitions it to MATCHED, and every call that fails for it
\* fails with a Conflict error.
C1_SingleWinner ==
  \A r \in Rides : Len(matches[r]) <= 1 /\ acceptErrs \subseteq {"Conflict"}

\* C2: over the whole life of a ride, lock expiry included, its driverId is
\* written at most once and at most one driver is ever set ON_RIDE for it.
C2_AtMostOneDriver ==
  \A r \in Rides : Cardinality(AssignedDrivers(r)) <= 1 /\ Len(matches[r]) < 2

\* C3: when a cancelRide has committed on a ride that was also matched, then
\* once every racing handler and the matcher have finished, the ride is
\* CANCELLED and every driver that was set ON_RIDE for it is AVAILABLE.
C3_CancelWinsRace ==
  \A r \in cancelled :
    (Quiescent /\ matches[r] # <<>>)
       => /\ rideStatus[r] = "CANCELLED"
          /\ \A d \in AssignedDrivers(r) : driverStatus[d] = "AVAILABLE"

\* C4: once the status of a ride is COMPLETED, CANCELLED or FAILED, no step
\* of any handler or of the matcher changes it.
C4_TerminalAbsorbing ==
  [][\A r \in Rides : rideStatus[r] \in Terminal => rideStatus'[r] = rideStatus[r]]_vars

\* C5: a step of the matcher of a ride that another actor has moved out of
\* SEARCHING never writes to the ride.
C5_MatcherLeavesRideAlone ==
  [][\A r \in Rides :
       (matcher[r].pc # "off" /\ matcher'[r] # matcher[r] /\ rideStatus[r] # "SEARCHING")
          => (rideStatus'[r] = rideStatus[r] /\ rideDriver'[r] = rideDriver[r])]_vars

\* C6: no driver is the driver of two rides that are both MATCHED,
\* DRIVER_ARRIVING, ARRIVED or IN_PROGRESS.
C6_OneActiveRidePerDriver ==
  \A d \in Drivers : Cardinality(ActiveRidesOf(d)) <= 1

\* C7: a driver whose status is ON_RIDE is the driver of exactly one ride in
\* a non-terminal status.
C7_OnRideHasOneRide ==
  \A d \in Drivers :
    driverStatus[d] = "ON_RIDE" =>
      Cardinality({r \in Rides : rideDriver[r] = d /\ rideStatus[r] \notin Terminal \cup {"NONE"}}) = 1

\* C8: a cancelRide issued on a ride that is IN_PROGRESS is rejected.
C8_NoCancelInProgress ==
  [][\A t \in Tasks, r \in Rides :
       rideStatus[r] = "IN_PROGRESS"
          => ~(Idle(t) /\ task'[t].pc = "cancel_write" /\ task'[t].ride = r)]_vars

\* C9: markArriving changes a ride only when it is MATCHED, markArrived only
\* when it is DRIVER_ARRIVING, startTrip only when it is ARRIVED, endTrip only
\* when it is IN_PROGRESS.
Commits(t, label) == task[t].pc = label /\ task'[t].pc = "idle"

C9_ForwardTransitionsSound ==
  [][\A t \in Tasks :
       /\ Commits(t, "arriving_write") => rideStatus[task[t].ride] = "MATCHED"
       /\ Commits(t, "arrived_write") => rideStatus[task[t].ride] = "DRIVER_ARRIVING"
       /\ Commits(t, "start_write") => rideStatus[task[t].ride] = "ARRIVED"
       /\ Commits(t, "end_write") => rideStatus[task[t].ride] = "IN_PROGRESS"]_vars

\* Reading a ride while it is matched, cancelled or given up.
InitView == InitPop({"r1"}, {"d1"}, {"t1"}, ViewRequests)
NextView == CreateSteps \/ MatcherSteps \/ CancelSteps \/ ViewSteps
SpecView == InitView /\ [][NextView]_vars

\* Payment settlement: one completed trip (r1, driven by d1) and one trip
\* still in progress (r2, driven by d2).
InitPay ==
  /\ pending = {}
  /\ workers = {}
  /\ driverStatus = [d \in Drivers |-> IF d = "d1" THEN "AVAILABLE" ELSE "ON_RIDE"]
  /\ driverPos = {"d1", "d2"}
  /\ geo = {"d1"}
  /\ rideStatus = [r \in Rides |-> IF r = "r1" THEN "COMPLETED" ELSE "IN_PROGRESS"]
  /\ rideDriver = [r \in Rides |-> IF r = "r1" THEN "d1" ELSE "d2"]
  /\ tripStatus = [r \in Rides |-> IF r = "r1" THEN "COMPLETED" ELSE "STARTED"]
  /\ tripDriver = rideDriver
  /\ tripOtp = [r \in Rides |-> 1]
  /\ lock = [r \in Rides |-> NoToken]
  /\ task = [t \in Tasks |-> IdleTask]
  /\ matcher = [r \in Rides |-> DoneMatcher(IdleMatcher)]
  /\ matches = [r \in Rides |-> <<rideDriver[r]>>]
  /\ acceptErrs = {}
  /\ cancelled = {}
  /\ requests = 0
  /\ payments = {}
  /\ idemKeys = {}
  /\ idemResp = [k \in Keys |-> NoResp]
  /\ payTask = [p \in PayTasks |-> IdlePay]
  /\ charges = [r \in Rides |-> 0]
  /\ responses = [k \in Keys |-> {}]
  /\ payRequests = PayRequests
  /\ refunds = [r \in Rides |-> <<>>]
  /\ outcomes = {}
  /\ rideCache = [r \in Rides |-> NoCache]
  /\ rideEvents = [r \in Rides |-> IF r = "r1" THEN 6 ELSE 5]
  /\ published = [r \in Rides |-> IF r = "r1" THEN 5 ELSE 4]
  /\ notices = [r \in Rides |-> IF r = "r1" THEN 6 ELSE 5]
  /\ reply = NoReply
  /\ applied = [r \in Rides |-> Journey(rideStatus[r])]
  /\ topic = applied
  /\ InitLive(0, 0)
PaySteps ==
  \/ \E p \in PayTasks, r \in Rides, k \in Keys : payCheck(p, r, k)
  \/ \E p \in PayTasks : payRead(p)
  \/ \E p \in PayTasks : payInsert(p)
  \/ \E p \in PayTasks, ok \in BOOLEAN : payCharge(p, ok)
  \/ \E p \in PayTasks : payCommit(p)
  \/ \E p \in PayTasks, r \in Rides : retryRead(p, r)
  \/ \E p \in PayTasks : retryUpdate(p)
  \/ \E p \in PayTasks, ok \in BOOLEAN : retryCommit(p, ok)
  \/ \E p \in PayTasks, r \in Rides, a \in RefundAmounts : refundRead(p, r, a)
  \/ \E p \in PayTasks : refundWrite(p)
NextPay == PaySteps
SpecPay == InitPay /\ [][NextPay]_vars

\* C10: two processPayment calls with the same idempotency key, one after the
\* other or overlapping, return the same response, leave exactly one payment
\* row for the trip and charge the PSP at most once.
C10_PaymentIdempotent ==
  /\ \A k \in Keys, r \in Rides : Cardinality({x \in responses[k] : x[1] = r}) <= 1
  /\ \A r \in Rides : Cardinality({row \in payments : row.trip = r}) <= 1
  /\ \A r \in Rides : charges[r] <= 1

\* C11: retryPayment is accepted only for a payment that is FAILED with
\* attempts below maxAttempts, is rejected in every other status, and no
\* payment ever has more attempts than maxAttempts, also under concurrent
\* retries.
C11_RetryOnlyFailed ==
  /\ \A o \in outcomes :
        o.op = "retry" =>
          (o.result = "ok" <=> (o.status = "FAILED" /\ o.attempts < MaxPayAttempts))
  /\ \A row \in payments : row.attempts <= MaxPayAttempts

\* C12: under processPayment, retryPayment and processRefund a trip has at
\* most one payment row, a payment row exists only for a COMPLETED trip, and
\* at most one payment of a trip is COMPLETED.
C12_OnePaymentPerTrip ==
  \A r \in Rides :
    /\ Cardinality({row \in payments : row.trip = r}) <= 1
    /\ HasPayment(r) => tripStatus[r] = "COMPLETED"
    /\ Cardinality({row \in payments : row.trip = r /\ row.status = "COMPLETED"}) <= 1

\* a payment declined at first and completed by a retry, and a processPayment
\* answered for the trip that is still in progress
C12_Witness ==
  /\ \E row \in payments : row.trip = "r1" /\ row.status = "COMPLETED" /\ row.attempts = 2
  /\ \E k \in Keys : \E x \in responses[k] : x[1] = "r2"

\* C13: a processPayment with a new idempotency key for a trip whose payment
\* row is not COMPLETED does not fail on the existing row.
C13_ReusesExistingRow ==
  [][\A p \in PayTasks :
       (/\ payTask[p].pc = "pay_insert"
        /\ \E row \in payments : /\ row.trip = payTask[p].trip
                                  /\ row.status # "COMPLETED"
                                  /\ row.key # payTask[p].key)
       => payTask'[p].pc = "pay_psp"]_vars

\* C14: processRefund is accepted exactly when the payment it reads is
\* COMPLETED and the amount is at most the paid amount, and fails with
\* Validation otherwise; refund rows are created only by accepted calls; an
\* accepted refund of the paid amount sets the payment REFUNDED, a smaller one
\* PARTIALLY_REFUNDED.
RefundCommits(p) == payTask[p].pc = "refund_write" /\ payTask'[p].pc = "idle"
C14_RefundRules ==
  /\ [](\A o \in outcomes :
          o.op = "refund" =>
            /\ o.result = "ok" <=> (o.status = "COMPLETED" /\ o.amount <= Fare)
            /\ o.result \in {"ok", "Validation"})
  /\ [][/\ refunds' # refunds => \E p \in PayTasks : RefundCommits(p)
        /\ \A p \in PayTasks :
             RefundCommits(p) =>
               /\ refunds'[payTask[p].trip] = Append(refunds[payTask[p].trip], payTask[p].amount)
               /\ \E row \in payments' :
                    /\ row.trip = payTask[p].trip
                    /\ row.status = IF payTask[p].amount = Fare THEN "REFUNDED"
                                    ELSE "PARTIALLY_REFUNDED"]_vars

\* a partial refund was made, and refunds were refused for the amount and for
\* the status
C14_Witness ==
  /\ refunds["r1"] = <<1>>
  /\ \E row \in payments : row.trip = "r1" /\ row.status = "PARTIALLY_REFUNDED"
  /\ \E o \in outcomes : o.op = "refund" /\ o.result = "Validation" /\ o.amount > Fare
  /\ \E o \in outcomes : o.op = "refund" /\ o.result = "Validation" /\ o.status # "COMPLETED"

\* One ride matched with driver d1; the driver and the rider call
\* updateDriverArriving, markDriverArrived, startTrip, endTrip and cancelRide
\* on two request tasks.
InitOtp ==
  /\ pending = {}
  /\ workers = {"t1", "t2"}
  /\ driverStatus = [d \in Drivers |-> IF d = "d1" THEN "ON_RIDE" ELSE "NONE"]
  /\ driverPos = {"d1"}
  /\ geo = {}
  /\ rideStatus = [r \in Rides |-> IF r = "r1" THEN "MATCHED" ELSE "NONE"]
  /\ rideDriver = [r \in Rides |-> IF r = "r1" THEN "d1" ELSE NoDriver]
  /\ tripStatus = [r \in Rides |-> "NONE"]
  /\ tripDriver = [r \in Rides |-> NoDriver]
  /\ tripOtp = [r \in Rides |-> 0]
  /\ lock = [r \in Rides |-> NoToken]
  /\ task = [t \in Tasks |-> IdleTask]
  /\ matcher = [r \in Rides |-> IF r = "r1" THEN DoneMatcher(IdleMatcher) ELSE IdleMatcher]
  /\ matches = [r \in Rides |-> IF r = "r1" THEN <<"d1">> ELSE <<>>]
  /\ acceptErrs = {}
  /\ cancelled = {}
  /\ requests = OtpRequests
  /\ payments = {}
  /\ idemKeys = {}
  /\ idemResp = [k \in Keys |-> NoResp]
  /\ payTask = [p \in PayTasks |-> IdlePay]
  /\ charges = [r \in Rides |-> 0]
  /\ responses = [k \in Keys |-> {}]
  /\ payRequests = 0
  /\ refunds = [r \in Rides |-> <<>>]
  /\ outcomes = {}
  /\ rideCache = [r \in Rides |-> NoCache]
  /\ applied = [r \in Rides |-> Journey(rideStatus[r])]
  /\ topic = applied
  /\ rideEvents = [r \in Rides |-> IF r = "r1" THEN 2 ELSE 0]
  /\ published = [r \in Rides |-> IF r = "r1" THEN 1 ELSE 0]
  /\ notices = [r \in Rides |-> IF r = "r1" THEN 2 ELSE 0]
  /\ reply = NoReply
  /\ InitLive(0, 0)
NextOtp == PickupSteps \/ TripSteps \/ CancelSteps
SpecOtp == InitOtp /\ [][NextOtp]_vars

\* C15: a startTrip is admitted only with the OTP stored on a PENDING trip;
\* one refused at the OTP test is answered Validation and changes no trip,
\* ride, notification, ride event or published message; an admitted one sets
\* the trip STARTED and the ride IN_PROGRESS.
C15_OtpGate ==
  [][/\ \A t \in Tasks :
          (Idle(t) /\ task'[t].pc = "start_write") =>
             /\ tripStatus[task'[t].ride] = "PENDING"
             /\ task'[t].arg = tripOtp[task'[t].ride]
     /\ (reply' # reply /\ reply'.op = "startTrip") =>
          /\ reply'.code = "Validation"
          /\ reply'.arg # tripOtp[reply'.ride]
          /\ UNCHANGED <<rideStatus, rideDriver, driverStatus, tripStatus, tripDriver, tripOtp,
                         notices, rideEvents, published, rideCache, task>>
     /\ \A t \in Tasks :
          Commits(t, "start_write") =>
             /\ tripStatus'[task[t].ride] = "STARTED"
             /\ rideStatus'[task[t].ride] = "IN_PROGRESS"]_vars

\* a wrong OTP was refused and the trip was then started with the right one
C15_Witness ==
  /\ reply.op = "startTrip"
  /\ reply.arg # tripOtp[reply.ride]
  /\ tripStatus[reply.ride] = "STARTED"
  /\ rideStatus[reply.ride] = "IN_PROGRESS"

\* positions inside the body that withLock runs for ride:<id>:matching
AccBody == {"acc_ride", "acc_driver", "acc_write"}
MatchBody == {"m_ride", "m_driver", "m_write"}
InBody(r) ==
  {t \in Tasks : task[t].pc \in AccBody /\ task[t].ride = r}
    \cup (IF matcher[r].pc \in MatchBody THEN {r} ELSE {})
LeavesBody(t) == task[t].pc \in AccBody /\ task'[t].pc = "idle"
MatcherLeavesBody(r) == matcher[r].pc \in MatchBody /\ matcher'[r].pc \notin MatchBody

\* C16: two withLock calls with the same name never run their bodies at the
\* same time, also when a body outlives the TTL of the lock.
C16_LockExclusive == \A r \in Rides : Cardinality(InBody(r)) <= 1

\* C17: a release deletes the binding only when it holds the releaser's
\* token: a holder whose lock expired and was taken by another caller leaves
\* the new binding in place when it releases.
C17_ReleaseFenced ==
  [][/\ \A t \in Tasks :
          (LeavesBody(t) /\ lock[task[t].ride] # t) =>
             lock'[task[t].ride] = lock[task[t].ride]
     /\ \A r \in Rides :
          (MatcherLeavesBody(r) /\ lock[r] # r) => lock'[r] = lock[r]]_vars

\* a caller holds the lock in its body, past its reads, after an earlier
\* holder whose lock had expired has written and released
C17_Witness ==
  \E t \in Tasks :
    /\ task[t].pc = "acc_write"
    /\ lock[task[t].ride] = t
    /\ matches[task[t].ride] # <<>>

\* C18: withLock unbinds a lock it still owns when its body returns or
\* throws, does not run the body when the lock is taken, and then fails with
\* a Conflict error.
C18_WithLockReleases ==
  /\ []("LockError" \notin acceptErrs)
  /\ [][/\ \A t \in Tasks :
            (LeavesBody(t) /\ lock[task[t].ride] = t) => lock'[task[t].ride] = NoToken
        /\ \A r \in Rides : (MatcherLeavesBody(r) /\ lock[r] = r) => lock'[r] = NoToken
        /\ \A t \in Tasks :
            (Idle(t) /\ task'[t].pc \in AccBody) => lock[task'[t].ride] = NoToken
        /\ \A r \in Rides :
            (matcher[r].pc = "m_lock" /\ matcher'[r].pc \in MatchBody) => lock[r] = NoToken]_vars

C20_TransitionsAnnounced ==
  [][/\ \A r \in Rides :
          (rideStatus[r] # "NONE" /\ rideStatus'[r] # rideStatus[r]) =>
             /\ rideEvents'[r] = rideEvents[r] + 1
             /\ rideCache'[r] = NoCache
             /\ published'[r] = published[r] + 1
     /\ (reply' # reply /\ reply'.op = "getRide") =>
          reply'.code = rideStatus[reply'.ride]]_vars

\* ------------------------------------------------- location and bus specs
LocSteps ==
  \/ \E d \in Drivers : updateDriverLocation(d)
  \/ \E d \in Drivers : updateDriverLocationPublish(d)
  \/ \E ok \in BOOLEAN : pipelineExec(ok)
  \/ Tick
  \/ TimerFire

BusSteps ==
  \/ \E s \in Sockets, c \in Channels : subscribeToUpdates(s, c)
  \/ \E s \in Sockets : disconnect(s)
  \/ \E c \in Channels : publish(c)

\* Location ingest.  Ride r1 was accepted by d1 through acceptRide and is
\* MATCHED, IN_PROGRESS or COMPLETED; d2 is AVAILABLE and in the geo set, or
\* has gone OFFLINE through updateDriverAvailability and is out of it.
LocStages == {"MATCHED", "IN_PROGRESS", "COMPLETED"}
InitLoc ==
  /\ pending = {}
  /\ workers = {}
  /\ \E st \in LocStages, s2 \in {"OFFLINE", "AVAILABLE"} :
       /\ rideStatus = [r \in Rides |-> IF r = "r1" THEN st ELSE "NONE"]
       /\ driverStatus = [d \in Drivers |-> IF d = "d2" THEN s2
                                            ELSE IF st = "COMPLETED" THEN "AVAILABLE"
                                            ELSE "ON_RIDE"]
       /\ geo = IF s2 = "AVAILABLE" THEN {"d2"} ELSE {}
       /\ tripStatus = [r \in Rides |-> IF r = "r2" \/ st = "MATCHED" THEN "NONE"
                                        ELSE IF st = "IN_PROGRESS" THEN "STARTED"
                                        ELSE "COMPLETED"]
  /\ driverPos = {"d1", "d2"}
  /\ rideDriver = [r \in Rides |-> IF r = "r1" THEN "d1" ELSE NoDriver]
  /\ tripDriver = [r \in Rides |-> IF tripStatus[r] # "NONE" THEN "d1" ELSE NoDriver]
  /\ tripOtp = [r \in Rides |-> IF tripStatus[r] # "NONE" THEN 1 ELSE 0]
  /\ lock = [r \in Rides |-> NoToken]
  /\ task = [t \in Tasks |-> IdleTask]
  /\ matcher = [r \in Rides |-> IF r = "r1" THEN DoneMatcher(IdleMatcher) ELSE IdleMatcher]
  /\ matches = [r \in Rides |-> IF r = "r1" THEN <<"d1">> ELSE <<>>]
  /\ acceptErrs = {}
  /\ cancelled = {}
  /\ requests = 0
  /\ payments = {}
  /\ idemKeys = {}
  /\ idemResp = [k \in Keys |-> NoResp]
  /\ payTask = [p \in PayTasks |-> IdlePay]
  /\ charges = [r \in Rides |-> 0]
  /\ responses = [k \in Keys |-> {}]
  /\ payRequests = 0
  /\ refunds = [r \in Rides |-> <<>>]
  /\ outcomes = {}
  /\ rideCache = [r \in Rides |-> NoCache]
  /\ applied = [r \in Rides |-> Journey(rideStatus[r])]
  /\ topic = applied
  /\ rideEvents = [r \in Rides |-> IF r = "r1" THEN Len(applied[r]) + 1 ELSE 0]
  /\ published = [r \in Rides |-> Len(applied[r])]
  /\ notices = rideEvents
  /\ reply = NoReply
  /\ InitLive(LocRequests, 0)
NextLoc == LocSteps
SpecLoc == InitLoc /\ [][NextLoc]_vars

\* The update bus alone: sockets subscribe, disconnect, and messages are
\* published.
InitBus == InitStore({}, {"d1"}, {}, 0) /\ InitLive(0, BusRequests)
NextBus == BusSteps
SpecBus == InitBus /\ [][NextBus]_vars

C22_DrainsSerialized == Len(pipelines) <= 1

\* C23: for every driver, the pings the drains write, across all batches and
\* overlapping drains, are written in the order they were passed to
\* queueLocationUpdate.
C23_OrderPerDriver ==
  \A d \in Drivers : \A i, j \in DOMAIN written[d] :
    i < j => written[d][i].n < written[d][j].n

\* two pings of one driver have been written, the later one by a drain that
\* was started while a drain carrying an earlier ping of that driver was
\* still awaiting its write
C23_Witness ==
  \E d \in Drivers : \E i \in DOMAIN written[d] : i > 1 /\ written[d][i].lap

\* C24: a failed write of a drained batch does not drop the batch at its
\* first failure and never throws to the caller of the ingest operation.
C24_FailedFlushRetained == lost.batches = 0 /\ lost.thrown = 0

\* C25: a location request of a driver that completes publishes exactly one
\* message on ride:<rideId> and one on location:<driverId> when the driver is
\* the driver of a MATCHED, DRIVER_ARRIVING, ARRIVED or IN_PROGRESS ride,
\* and nothing otherwise.
C25_FanOut ==
  [][\A d \in Drivers :
       (pinger[d] # "idle" /\ pinger'[d] = "idle" /\ lost' = lost) =>
          IF ActiveRidesOf(d) # {}
          THEN /\ locPublished'[d] = locPublished[d] + 1
               /\ \E r \in ActiveRidesOf(d) : published'[r] = published[r] + 1
          ELSE /\ locPublished'[d] = locPublished[d]
               /\ published' = published]_vars

\* C26: a driver whose status is OFFLINE or BREAK is never in the geo index
\* and is never returned by findNearbyDrivers, whatever pings and flushes
\* have happened.
C26_GeoOnlyActiveDrivers ==
  \A d \in Drivers :
    driverStatus[d] \in {"OFFLINE", "BREAK"} =>
      /\ d \notin geo
      /\ \A i \in DOMAIN findNearbyDrivers : findNearbyDrivers[i] # d

\* C27: after every SEARCHING -> MATCHED transition, by acceptRide or by
\* matchRideWithDriver, the matched driver is ON_RIDE and is no longer in the
\* geo index (matchedAt is written by the same update as the status).
C27_MatchEffects ==
  [][\A r \in Rides :
       (rideStatus[r] = "SEARCHING" /\ rideStatus'[r] = "MATCHED") =>
          /\ rideDriver'[r] # NoDriver
          /\ driverStatus'[rideDriver'[r]] = "ON_RIDE"
          /\ rideDriver'[r] \notin geo']_vars

\* C28: in every state, an AVAILABLE driver whose position is known is in
\* the geo index, and an AVAILABLE driver with no known position is not.
C28_AvailableInGeo ==
  \A d \in Drivers : driverStatus[d] = "AVAILABLE" => (d \in geo <=> d \in driverPos)

RECURSIVE IsSubseq(_, _)
IsSubseq(s, t) ==
  IF s = <<>> THEN TRUE
  ELSE IF t = <<>> THEN FALSE
  ELSE IF Head(s) = Head(t) THEN IsSubseq(Tail(s), Tail(t))
  ELSE IsSubseq(s, Tail(t))

\* C29: the status messages on ride:<id> appear in the order in which the
\* transitions were applied to the persisted ride.
C29_TopicOrder == \A r \in Rides : IsSubseq(topic[r], applied[r])

\* C30: a message published on a channel is delivered to every handler
\* subscribed to the channel at that moment, whatever the other subscribers
\* of the channel have disposed of.
C30_FanOutToAll ==
  [][\A c \in Channels :
       sent'[c] # sent[c] =>
         \A s \in Sockets :
           <<s, c>> \in handlers => delivered'[s][c] = delivered[s][c] + 1]_vars

\* ------------------------------------------------------ keyed createRide
CreateKeySteps ==
  \/ \E t \in Tasks, k \in Keys : createCheck(t, k)
  \/ \E t \in Tasks : createInsert(t)

\* Riders submit createRide requests that carry idempotency keys, on two
\* request tasks; the matchers of the rides created run in the background.
InitCreate ==
  /\ InitStore({"r1", "r2"}, {"d1"}, {"t1", "t2"}, CreateRequests)
  /\ InitLive(0, 0)
NextCreate == CreateKeySteps \/ MatcherSteps
SpecCreate == InitCreate /\ [][NextCreate]_vars

\* C31: any number of createRide calls with one idempotency key, one after
\* the other or overlapping, leave one ride row with the key, start one
\* matching loop, and every call returns that ride as a success.
C31_CreateIdempotent ==
  \A k \in Keys :
    /\ Cardinality(RowOfKey(k)) <= 1
    /\ \A c \in creates : c.key = k => (c.ok /\ c.ride \in RowOfKey(k))

\* Pick-up with two drivers and one request task: the ride is created,
\* matched by acceptRide or by its matcher, and its drivers report arriving
\* and arrived.
InitPickup == InitPop({"r1"}, {"d1", "d2"}, {"t1"}, PickupRequests)
NextPickup == CreateSteps \/ ExpireSteps \/ AcceptSteps \/ MatcherSteps \/ PickupSteps
SpecPickup == InitPickup /\ [][NextPickup]_vars

\* C32: in every state a ride that is MATCHED, DRIVER_ARRIVING, ARRIVED,
\* IN_PROGRESS or COMPLETED has a driver, and a ride that is ARRIVED,
\* IN_PROGRESS or COMPLETED has a trip row (one per ride, by the unique index
\* on trips.rideId) whose driver is the ride's driver.
C32_DriverAndTrip ==
  \A r \in Rides :
    /\ rideStatus[r] \in ActiveStatus \cup {"COMPLETED"} => rideDriver[r] # NoDriver
    /\ rideStatus[r] \in {"ARRIVED", "IN_PROGRESS", "COMPLETED"} =>
         (tripStatus[r] # "NONE" /\ tripDriver[r] = rideDriver[r])

\* ------------------------------------------------------- end of a trip
EndSteps ==
  \/ \E t \in Tasks, r \in Rides : endRead(t, r)
  \/ \E t \in Tasks : endWrite(t)

\* Two trips in progress (r1 driven by d1, r2 by d2); riders and drivers call
\* endTrip and cancelRide on two request tasks.
InitEnd ==
  /\ pending = {}
  /\ workers = {"t1", "t2"}
  /\ driverStatus = [d \in Drivers |-> "ON_RIDE"]
  /\ driverPos = {"d1", "d2"}
  /\ geo = {}
  /\ rideStatus = [r \in Rides |-> "IN_PROGRESS"]
  /\ rideDriver = [r \in Rides |-> IF r = "r1" THEN "d1" ELSE "d2"]
  /\ tripStatus = [r \in Rides |-> "STARTED"]
  /\ tripDriver = rideDriver
  /\ tripOtp = [r \in Rides |-> 1]
  /\ lock = [r \in Rides |-> NoToken]
  /\ task = [t \in Tasks |-> IdleTask]
  /\ matcher = [r \in Rides |-> DoneMatcher(IdleMatcher)]
  /\ matches = [r \in Rides |-> <<rideDriver[r]>>]
  /\ acceptErrs = {}
  /\ cancelled = {}
  /\ requests = EndRequests
  /\ payments = {}
  /\ idemKeys = {}
  /\ idemResp = [k \in Keys |-> NoResp]
  /\ payTask = [p \in PayTasks |-> IdlePay]
  /\ charges = [r \in Rides |-> 0]
  /\ responses = [k \in Keys |-> {}]
  /\ payRequests = 0
  /\ refunds = [r \in Rides |-> <<>>]
  /\ outcomes = {}
  /\ rideCache = [r \in Rides |-> NoCache]
  /\ applied = [r \in Rides |-> Journey(rideStatus[r])]
  /\ topic = applied
  /\ rideEvents = [r \in Rides |-> 5]
  /\ published = [r \in Rides |-> 4]
  /\ notices = [r \in Rides |-> 5]
  /\ reply = NoReply
  /\ InitLive(0, 0)
NextEnd == EndSteps \/ CancelSteps
SpecEnd == InitEnd /\ [][NextEnd]_vars

\* C33: endTrip takes effect once per trip.  A committing endTrip sets trip
\* and ride COMPLETED and the driver AVAILABLE, adds exactly 1 to the
\* driver's totalTrips and to the rider's totalRides and creates one earnings
\* row and one receipts row; an endTrip that ends on a trip which already has
\* its receipt changes none of these; no trip ever has two of either row.
C33_EndTripOnce ==
  /\ [](\A r \in Rides : receipts[r] <= 1 /\ earnings[r] = receipts[r])
  /\ [](totalRides = receipts["r1"] + receipts["r2"])
  /\ [][\A t \in Tasks :
          Commits(t, "end_write") =>
            LET r == task[t].ride
                d == task[t].driver
            IN IF receipts[r] = 0
               THEN /\ tripStatus'[r] = "COMPLETED" /\ rideStatus'[r] = "COMPLETED"
                    /\ driverStatus'[d] = "AVAILABLE"
                    /\ totalTrips'[d] = totalTrips[d] + 1
                    /\ totalRides' = totalRides + 1
                    /\ earnings'[r] = 1 /\ receipts'[r] = 1
               ELSE UNCHANGED <<tripStatus, rideStatus, driverStatus, totalTrips, totalRides,
                                earnings, receipts>>]_vars

\* two endTrip calls had read the trip STARTED: one has committed, the other
\* has been rolled back
C33_Witness ==
  /\ receipts["r1"] = 1
  /\ totalTrips["d1"] = 1
  /\ [op |-> "endTrip", ride |-> "r1"] \in aborted

\* ------------------------------------------------------------ fare spec
InitFare ==
  /\ InitStore({}, {}, {}, 0)
  /\ InitRest(0, 0)
  /\ fare \in FareInputs
NextFare == computeFare
SpecFare == InitFare /\ [][NextFare]_vars

\* C34: for every fare computed, the rounded values returned satisfy
\* finalFare >= 0 and platformFee + driverEarnings = finalFare.
C34_FareConserved ==
  fare.pc = "out" =>
    /\ fare.output.finalFare >= 0
    /\ fare.output.platformFee + fare.output.driverEarnings = fare.output.finalFare

\* C35: every monetary output of the fare function is the exact value
\* rounded to the nearest hundredth with ties going to the even hundredth,
\* and computing a fare changes nothing but its result.
C35_HalfEvenAndPure ==
  /\ [](fare.pc = "out" =>
          \A o \in Outputs :
            fare.output[o] = RoundHalfEven(Exact(fare.input)[o], Denominator[o]))
  /\ [][fare' # fare => UNCHANGED <<rideVars, payVars, obsVars, locVars, busVars>>]_vars

\* the PSP has accepted a charge for the payment of trip r: the row carries a
\* PSP transaction id, or a processPayment holds an accepted result it has
\* not yet written
Charged(r) ==
  \/ \E row \in payments : row.trip = r /\ row.txn # 0
  \/ \E p \in PayTasks : payTask[p].pc = "pay_commit" /\ payTask[p].trip = r /\ payTask[p].ok

\* this step is a PSP charge for the payment of trip r that the PSP accepts
ChargeAccepted(r) ==
  \E p \in PayTasks :
    /\ payTask[p].trip = r
    /\ charges'[r] = charges[r] + 1
    /\ \/ payTask[p].pc = "pay_psp" /\ payTask'[p].pc = "pay_commit" /\ payTask'[p].ok
       \/ /\ payTask[p].pc = "retry_commit" /\ payTask'[p].pc = "idle"
          /\ \E row \in payments' : /\ row.trip = r /\ row.status = "COMPLETED"
                                     /\ row.txn = TotalCharges + 1

\* C36: once the PSP has accepted a charge for a payment, no later or
\* concurrent processPayment or retryPayment has a charge for that payment
\* accepted again, so a payment is charged successfully at most once.
C36_ChargedOnce ==
  [][\A r \in Rides : ChargeAccepted(r) => ~Charged(r)]_vars

\* C37: the amounts of the refund rows of a payment are positive and their
\* sum never exceeds the payment's amount, under any interleaving of
\* processRefund calls.
RECURSIVE Sum(_)
Sum(q) == IF q = <<>> THEN 0 ELSE Head(q) + Sum(Tail(q))
C37_RefundsBounded ==
  \A r \in Rides :
    /\ \A i \in DOMAIN refunds[r] : refunds[r][i] > 0
    /\ Sum(refunds[r]) <= Fare

\* Two rides whose drivers have arrived (r1 driven by d1, r2 by d2, each with
\* its PENDING trip); riders and drivers call startTrip, endTrip and
\* cancelRide on two request tasks.
InitRace ==
  /\ pending = {}
  /\ workers = {"t1", "t2"}
  /\ driverStatus = [d \in Drivers |-> "ON_RIDE"]
  /\ driverPos = {"d1", "d2"}
  /\ geo = {}
  /\ rideStatus = [r \in Rides |-> "ARRIVED"]
  /\ rideDriver = [r \in Rides |-> IF r = "r1" THEN "d1" ELSE "d2"]
  /\ tripStatus = [r \in Rides |-> "PENDING"]
  /\ tripDriver = rideDriver
  /\ tripOtp = [r \in Rides |-> 1]
  /\ lock = [r \in Rides |-> NoToken]
  /\ task = [t \in Tasks |-> IdleTask]
  /\ matcher = [r \in Rides |-> DoneMatcher(IdleMatcher)]
  /\ matches = [r \in Rides |-> <<rideDriver[r]>>]
  /\ acceptErrs = {}
  /\ cancelled = {}
  /\ requests = RaceRequests
  /\ payments = {}
  /\ idemKeys = {}
  /\ idemResp = [k \in Keys |-> NoResp]
  /\ payTask = [p \in PayTasks |-> IdlePay]
  /\ charges = [r \in Rides |-> 0]
  /\ responses = [k \in Keys |-> {}]
  /\ payRequests = 0
  /\ refunds = [r \in Rides |-> <<>>]
  /\ outcomes = {}
  /\ rideCache = [r \in Rides |-> NoCache]
  /\ applied = [r \in Rides |-> Journey(rideStatus[r])]
  /\ topic = applied
  /\ rideEvents = [r \in Rides |-> 4]
  /\ published = [r \in Rides |-> 3]
  /\ notices = [r \in Rides |-> 4]
  /\ reply = NoReply
  /\ InitLive(0, 0)
NextRace == TripSteps \/ CancelSteps
SpecRace == InitRace /\ [][NextRace]_vars

\* C38: under races of startTrip, endTrip and cancelRide on one ride, a ride
\* is IN_PROGRESS exactly when its trip is STARTED, a COMPLETED ride has a
\* COMPLETED trip, and a CANCELLED ride has no trip that is STARTED or
\* COMPLETED.
C38_RideTripConsistent ==
  \A r \in Rides :
    /\ rideStatus[r] = "IN_PROGRESS" <=> tripStatus[r] = "STARTED"
    /\ rideStatus[r] = "COMPLETED" => tripStatus[r] = "COMPLETED"
    /\ rideStatus[r] = "CANCELLED" => tripStatus[r] \notin {"STARTED", "COMPLETED"}

\* a startTrip that had read the PENDING trip committed after a cancelRide of
\* the ride, and an endTrip that had read the STARTED trip committed after a
\* cancelRide of the other
C38_Witness ==
  /\ "r1" \in cancelled /\ rideStatus["r1"] = "IN_PROGRESS" /\ tripStatus["r1"] = "STARTED"
  /\ "r2" \in cancelled /\ rideStatus["r2"] = "COMPLETED" /\ tripStatus["r2"] = "COMPLETED"

InitAbort == InitPop({"r1"}, {"d1"}, {"t1"}, AbortRequests)
NextAbort == NextTrip \/ AbortSteps
SpecAbort == InitAbort /\ [][NextAbort]_vars

\* C40: every status published on the channel of a ride belongs to a
\* transition that was committed, and an acceptRide, matchRideWithDriver,
\* cancelRide, startTrip or endTrip whose transaction does not commit has
\* published nothing and leaves the geo index and the ride cache as they
\* were.
Count(q, s) == Cardinality({i \in DOMAIN q : q[i] = s})
C40_PublishedIsCommitted ==
  /\ [](\A r \in Rides : \A i \in DOMAIN topic[r] :
          Count(topic[r], topic[r][i]) <= Count(applied[r], topic[r][i]))
  /\ [][aborted' # aborted => UNCHANGED <<topic, published, geo, rideCache>>]_vars

TypeOK ==
  /\ rideStatus \in [Rides -> {"NONE", "SEARCHING", "FAILED", "CANCELLED", "COMPLETED"} \cup ActiveStatus]
  /\ driverStatus \in [Drivers -> DriverStatus \cup {"NONE"}]
  /\ requests \in Nat

====
